---- MODULE Spec2Model ----
(***************************************************************************)
(* Stigmergic coordination substrate of StigmergiAgentic: the pheromone    *)
(* store (environment/pheromone_store.py), its guardrails                  *)
(* (environment/guardrails.py), decay (environment/decay.py), the agents   *)
(* (agents/*.py) and the round-robin loop (stigmergy/loop.py).             *)
(*                                                                         *)
(* Entries are Python dicts: functions from the keys that are present to   *)
(* their values.  Real numbers in [0,1] are fixed-point integers in units  *)
(* of 1/One, products are truncated (so a positive value strictly          *)
(* decreases under exponential decay, as it does in floating point).       *)
(***************************************************************************)
EXTENDS Integers, Sequences, FiniteSets, TLC

VARIABLES
    store,      \* store[ns][file_key] = entry, ns in PHEROMONE_FILE_MAP
    audit,      \* audit_log.jsonl: the sequence of appended events
    now,        \* the wall clock utc_timestamp() reads, in whole seconds
    proc,       \* per calling process: position inside a write()/update() call
    tick,       \* run_loop: runtime["tick"]
    pc,         \* run_loop: the statement the scheduler thread is at
    idle_cycles,
    stop_reason,
    agents_acted,
    total_tokens_used,  \* LLMClient.total_tokens_used
    max_budget_usd,     \* LLMClient.max_budget_usd (llm.max_budget_usd)
    partial_json,       \* namespaces whose file holds partially written JSON
    summary,    \* the summary file run_loop writes after its loop
    repo,       \* target repository: per file, working tree and HEAD content
    local       \* the running agent's action/result dict

\* The scheduler, the LLM client and the target repository.
loopvars == <<tick, pc, idle_cycles, stop_reason, agents_acted,
              total_tokens_used, max_budget_usd, partial_json, summary, repo, local>>
vars == <<store, audit, now, proc, tick, pc, idle_cycles, stop_reason,
          agents_acted, total_tokens_used, max_budget_usd, partial_json, summary, repo, local>>

\* ------------------------------------------------------------------ bounds

\* Store calls explored per behaviour of Spec (each appends audit events).
MaxAudit == 2
\* Seconds the wall clock may advance.
MaxNow == 1

\* --------------------------------------------------------------- constants

\* 1.0 in fixed point.
One == 100
max_retry_count == 3
scope_lock_ttl == 3

PHEROMONE_FILE_MAP == {"tasks", "status", "quality"}
Files == {"a.py", "b.py"}
Agents == {"transformer", "validator"}

\* ------------------------------------------------------------ dict helpers

EmptyDict == [k \in {} |-> 0]
Has(d, k) == k \in DOMAIN d
Get(d, k, default) == IF k \in DOMAIN d THEN d[k] ELSE default
Put(d, k, v) == [x \in (DOMAIN d) \cup {k} |-> IF x = k THEN v ELSE d[x]]
Pop(d, k) == [x \in (DOMAIN d) \ {k} |-> d[x]]
DictUpdate(d, fields) ==
    [x \in (DOMAIN d) \cup (DOMAIN fields) |->
        IF x \in DOMAIN fields THEN fields[x] ELSE d[x]]
Maximum(a, b) == IF a >= b THEN a ELSE b
Minimum(a, b) == IF a <= b THEN a ELSE b

\* -------------------------------------------------------------- guardrails

utc_timestamp == now

\* Mutant: the cap off by one.
\* Mutant: the cap set beyond every retry_count a run produces.
enforce_retry_limit_Never(retry_count) == retry_count > max_retry_count + scope_lock_ttl

enforce_retry_limit_OffByOne(retry_count) == retry_count > max_retry_count + 1

enforce_retry_limit(retry_count) == retry_count > max_retry_count

\* Mutant: the owner comparison inverted (== for !=).
enforce_scope_lock_OwnerInverted(file_key, agent_id, status_entry) ==
    \/ status_entry = EmptyDict
    \/ ~ ( /\ Get(status_entry, "status", "") = "in_progress"
           /\ Has(status_entry, "lock_owner")
           /\ status_entry["lock_owner"] = agent_id )

\* TRUE when the call returns normally, FALSE when it raises ScopeLockError.
enforce_scope_lock(file_key, agent_id, status_entry) ==
    \/ status_entry = EmptyDict
    \/ ~ ( /\ Get(status_entry, "status", "") = "in_progress"
           /\ Has(status_entry, "lock_owner")
           /\ status_entry["lock_owner"] # agent_id )

acquire_scope_lock(status_entry, agent_id, current_tick) ==
    Put(Put(status_entry, "lock_owner", agent_id),
        "lock_acquired_tick", current_tick)

release_scope_lock(status_entry, agent_id) ==
    IF ~Has(status_entry, "lock_owner") \/ status_entry["lock_owner"] = agent_id
    THEN Pop(Pop(status_entry, "lock_owner"), "lock_acquired_tick")
    ELSE status_entry

stamp_trace(payload, agent_id, action) ==
    LET stamped == Put(payload, "timestamp", utc_timestamp)
    IN  IF action = "write"
        THEN (IF Has(stamped, "created_by") THEN stamped
              ELSE Put(stamped, "created_by", agent_id))
        ELSE Put(stamped, "updated_by", agent_id)

\* ------------------------------------------------------------------- store

\* data is the content of the three namespace files when the call reads them.
read_all(data, pheromone_type) == data[pheromone_type]
read_one(data, pheromone_type, file_key) ==
    Get(read_all(data, pheromone_type), file_key, EmptyDict)

_enforce_scope_lock(data, pheromone_type, file_key, agent_id) ==
    enforce_scope_lock(file_key, agent_id, read_one(data, "status", file_key))

\* Mutant: the caller's retry_count taken as given (no max with the stored one).
_finalize_status_entry_NoMax(pheromone_type, previous_entry, candidate_entry, agent_id) ==
    IF pheromone_type # "status" THEN candidate_entry
    ELSE
      LET current_tick == Get(candidate_entry, "current_tick", 0)
          popped == Pop(candidate_entry, "current_tick")
          status_value == Get(popped, "status", "")
          previous_retry == Get(previous_entry, "retry_count", 0)
          counted == Put(popped, "retry_count",
                         Get(popped, "retry_count", previous_retry))
          locked == IF status_value = "in_progress"
                    THEN acquire_scope_lock(counted, agent_id, current_tick)
                    ELSE release_scope_lock(counted, agent_id)
      IN  IF enforce_retry_limit(locked["retry_count"])
          THEN Put(locked, "status", "skipped")
          ELSE locked

_finalize_status_entry(pheromone_type, previous_entry, candidate_entry, agent_id) ==
    IF pheromone_type # "status" THEN candidate_entry
    ELSE
      LET current_tick == Get(candidate_entry, "current_tick", 0)
          popped == Pop(candidate_entry, "current_tick")
          status_value == Get(popped, "status", "")
          previous_retry == Get(previous_entry, "retry_count", 0)
          candidate_retry == Get(popped, "retry_count", previous_retry)
          counted == Put(popped, "retry_count",
                         Maximum(previous_retry, candidate_retry))
          locked == IF status_value = "in_progress"
                    THEN acquire_scope_lock(counted, agent_id, current_tick)
                    ELSE release_scope_lock(counted, agent_id)
      IN  IF enforce_retry_limit(locked["retry_count"])
          THEN Put(locked, "status", "skipped")
          ELSE locked

\* The closure write()/update() hand to _upsert_entry.
transform(action, pheromone_type, previous_entry, payload, agent_id) ==
    LET candidate == IF action = "write" THEN payload
                     ELSE DictUpdate(previous_entry, payload)
    IN  stamp_trace(
            _finalize_status_entry(pheromone_type, previous_entry,
                                   candidate, agent_id),
            agent_id, action)

\* The event _append_audit_event builds from the two entries (the event's own
\* timestamp field is left out: nothing reads it).
AuditEvent(agent_id, pheromone_type, file_key, action, previous_values, updated_values) ==
    LET changed == {k \in DOMAIN updated_values :
                        ~Has(previous_values, k)
                        \/ previous_values[k] # updated_values[k]}
    IN  [ agent |-> agent_id,
          pheromone_type |-> pheromone_type,
          file_key |-> file_key,
          action |-> action,
          fields_changed |-> [k \in changed |-> updated_values[k]],
          previous_values |->
              [k \in changed \cap DOMAIN previous_values |-> previous_values[k]] ]

\* ------------------------------------------------------------------- decay

\* exp(-decay_rate) and exp(-inhibition_decay_rate) for the default rates
\* 0.05 and 0.08, in units of 1/One.
IntensityDecayFactor == 95
InhibitionDecayFactor == 92

_clamp_unit(value) == Maximum(0, Minimum(One, value))

\* Mutant: the factor is applied the wrong way round.
decay_intensity_Grows(value) ==
    _clamp_unit((_clamp_unit(value) * One) \div IntensityDecayFactor)

\* decay_type = "exponential" (the configured default).
decay_intensity(value) ==
    _clamp_unit((_clamp_unit(value) * IntensityDecayFactor) \div One)

decay_inhibition(value) ==
    _clamp_unit((_clamp_unit(value) * InhibitionDecayFactor) \div One)

\* ---------------------------------------------------- store: system passes

\* The order in which a namespace file's keys are iterated (sort_keys=True).
FileOrder == <<"a.py", "b.py">>
KeysInOrder(d) == SelectSeq(FileOrder, LAMBDA k : k \in DOMAIN d)

SystemEvent(agent_id, pheromone_type, file_key, fields, previous) ==
    [ agent |-> agent_id,
      pheromone_type |-> pheromone_type,
      file_key |-> file_key,
      action |-> "update",
      fields_changed |-> fields,
      previous_values |-> previous ]

\* Guardrails.enforce_scope_lock_ttl: which entries it releases, and how.
TtlExpired(entry, current_tick) ==
    /\ Get(entry, "status", "") = "in_progress"
    /\ Has(entry, "lock_owner")
    /\ Has(entry, "lock_acquired_tick")
    /\ current_tick - entry["lock_acquired_tick"] > scope_lock_ttl

\* Mutant: the release forgets to count the retry.
TtlRelease_NoRetryIncrement(entry) ==
    LET e1 == Put(entry, "previous_status", entry["status"])
        e2 == Put(e1, "status", "pending")
        e4 == Put(e2, "timestamp", utc_timestamp)
        e5 == Put(e4, "updated_by", "system_ttl")
    IN  Pop(Pop(e5, "lock_owner"), "lock_acquired_tick")

\* Mutant: the release counts the retry but forgets to demote and unlock.
TtlRelease_KeepsInProgress(entry) ==
    LET e3 == Put(entry, "retry_count", Get(entry, "retry_count", 0) + 1)
        e4 == Put(e3, "timestamp", utc_timestamp)
    IN  Put(e4, "updated_by", "system_ttl")

TtlRelease(entry) ==
    LET e1 == Put(entry, "previous_status", entry["status"])
        e2 == Put(e1, "status", "pending")
        e3 == Put(e2, "retry_count", Get(entry, "retry_count", 0) + 1)
        e4 == Put(e3, "timestamp", utc_timestamp)
        e5 == Put(e4, "updated_by", "system_ttl")
    IN  Pop(Pop(e5, "lock_owner"), "lock_acquired_tick")

enforce_scope_lock_ttl(status_data, current_tick) ==
    [k \in DOMAIN status_data |->
        IF TtlExpired(status_data[k], current_tick)
        THEN TtlRelease(status_data[k]) ELSE status_data[k]]

\* Mutant: the requeue counts as one more retry.
RetryRequeue_CountsRetry(entry) ==
    LET e1 == Put(entry, "previous_status", entry["status"])
        e2 == Put(e1, "status", "pending")
        e3 == Put(e2, "retry_count", Get(entry, "retry_count", 0) + 1)
        e4 == Put(e3, "timestamp", utc_timestamp)
    IN  Put(e4, "updated_by", "system_retry")

RetryRequeue(entry) ==
    LET e1 == Put(entry, "previous_status", entry["status"])
        e2 == Put(e1, "status", "pending")
        e3 == Put(e2, "timestamp", utc_timestamp)
    IN  Put(e3, "updated_by", "system_retry")

\* The status namespace after maintain_status(current_tick).
MaintainedStatus(status_data, current_tick) ==
    LET released == enforce_scope_lock_ttl(status_data, current_tick)
    IN  [k \in DOMAIN released |->
            IF Get(released[k], "status", "") = "retry"
            THEN RetryRequeue(released[k]) ELSE released[k]]

MaintainEvents(status_data, current_tick) ==
    LET released == enforce_scope_lock_ttl(status_data, current_tick)
        ttl_released == SelectSeq(KeysInOrder(status_data),
                            LAMBDA k : TtlExpired(status_data[k], current_tick))
        retry_requeued == SelectSeq(KeysInOrder(released),
                            LAMBDA k : Get(released[k], "status", "") = "retry")
        TtlEvent(k) ==
            SystemEvent("system_ttl", "status", k,
                [f \in {"status", "retry_count"} |-> released[k][f]],
                [f \in {"status", "retry_count"} \cap DOMAIN status_data[k]
                    |-> status_data[k][f]])
        RetryEvent(k) ==
            SystemEvent("system_retry", "status", k,
                [f \in {"status"} |-> "pending"],
                [f \in {"status"} |-> "retry"])
    IN  [i \in 1..Len(ttl_released) |-> TtlEvent(ttl_released[i])]
            \o [i \in 1..Len(retry_requeued) |-> RetryEvent(retry_requeued[i])]

\* Mutant: every task decays, whatever its file's status.
DecaysTask_AnyStatus(tasks_data, status_data, k) ==
    /\ Has(tasks_data[k], "intensity")
    /\ decay_intensity(tasks_data[k]["intensity"]) # tasks_data[k]["intensity"]

\* Mutant: an unchanged value is rewritten and audited all the same.
DecaysTask_NoEqualityCheck(tasks_data, status_data, k) ==
    /\ Get(Get(status_data, k, EmptyDict), "status", "pending") \in {"pending", "retry"}
    /\ Has(tasks_data[k], "intensity")

\* apply_decay("tasks"): which tasks change.
DecaysTask(tasks_data, status_data, k) ==
    /\ Get(Get(status_data, k, EmptyDict), "status", "pending") \in {"pending", "retry"}
    /\ Has(tasks_data[k], "intensity")
    /\ decay_intensity(tasks_data[k]["intensity"]) # tasks_data[k]["intensity"]

DecayedTasks(tasks_data, status_data) ==
    [k \in DOMAIN tasks_data |->
        IF DecaysTask(tasks_data, status_data, k)
        THEN Put(Put(Put(tasks_data[k],
                 "intensity", decay_intensity(tasks_data[k]["intensity"])),
                 "timestamp", utc_timestamp),
                 "updated_by", "system_decay")
        ELSE tasks_data[k]]

TaskDecayEvents(tasks_data, status_data) ==
    LET Ev(k) == SystemEvent("system_decay", "tasks", k,
                    [f \in {"intensity"} |-> decay_intensity(tasks_data[k]["intensity"])],
                    [f \in {"intensity"} |-> tasks_data[k]["intensity"]])
        decayed == SelectSeq(KeysInOrder(tasks_data),
                    LAMBDA k : DecaysTask(tasks_data, status_data, k))
    IN  [i \in 1..Len(decayed) |-> Ev(decayed[i])]

\* apply_decay_inhibition(): which status entries change.
DecaysInhibition(status_data, k) ==
    /\ Has(status_data[k], "inhibition")
    /\ status_data[k]["inhibition"] > 0
    /\ decay_inhibition(status_data[k]["inhibition"]) # status_data[k]["inhibition"]

DecayedInhibition(status_data) ==
    [k \in DOMAIN status_data |->
        IF DecaysInhibition(status_data, k)
        THEN Put(Put(Put(status_data[k],
                 "inhibition", decay_inhibition(status_data[k]["inhibition"])),
                 "timestamp", utc_timestamp),
                 "updated_by", "system_decay")
        ELSE status_data[k]]

InhibitionDecayEvents(status_data) ==
    LET Ev(k) == SystemEvent("system_decay", "status", k,
                    [f \in {"inhibition"} |-> decay_inhibition(status_data[k]["inhibition"])],
                    [f \in {"inhibition"} |-> status_data[k]["inhibition"]])
        decayed == SelectSeq(KeysInOrder(status_data),
                    LAMBDA k : DecaysInhibition(status_data, k))
    IN  [i \in 1..Len(decayed) |-> Ev(decayed[i])]

\* ------------------------------------------------- Spec: the store's calls

\* A process that is not inside a store call.
IdleProc ==
    [ pc |-> "idle", action |-> "none", pheromone_type |-> "none",
      file_key |-> "none", payload |-> EmptyDict,
      previous_values |-> EmptyDict, updated_entry |-> EmptyDict,
      raised |-> "none" ]

InFlight == Cardinality({p \in Agents : proc[p].pc # "idle"})
CanCall == Len(audit) + InFlight < MaxAudit

\* Payloads the concurrent callers hand to write() and to update(); no caller
\* updates a task (the Scout writes it whole).
WriteStatusPayloads ==
    { [status |-> "retry", retry_count |-> 1, inhibition |-> 50],
      [status |-> "pending", retry_count |-> max_retry_count + 1,
       inhibition |-> 0] }
UpdateStatusPayloads ==
    { [status |-> "in_progress", current_tick |-> 1],
      [status |-> "transformed", retry_count |-> 0] }
TaskPayloads == { [intensity |-> 90] }
QualityPayloads == { [confidence |-> 90] }
Payloads(action, pheromone_type) ==
    CASE pheromone_type = "tasks" ->
            IF action = "write" THEN TaskPayloads ELSE {}
      [] pheromone_type = "quality" -> QualityPayloads
      [] OTHER -> IF action = "write" THEN WriteStatusPayloads
                  ELSE UpdateStatusPayloads

\* write()/update() up to and including self._enforce_scope_lock(...): the
\* status namespace is read under a shared lock that is dropped before
\* _upsert_entry takes the exclusive lock of the target namespace.
Invoke(p, action, pheromone_type, file_key, payload) ==
    /\ proc[p].pc = "idle"
    /\ CanCall
    /\ proc' = [proc EXCEPT ![p] =
            IF "status" \in partial_json
            THEN [IdleProc EXCEPT !.raised = "PheromoneStoreError",
                      !.file_key = file_key]
            ELSE IF _enforce_scope_lock(store, pheromone_type, file_key, p)
            THEN [IdleProc EXCEPT !.pc = "checked", !.action = action,
                      !.pheromone_type = pheromone_type,
                      !.file_key = file_key, !.payload = payload]
            ELSE [IdleProc EXCEPT !.raised = "ScopeLockError",
                      !.file_key = file_key]]
    /\ UNCHANGED <<store, audit, now, loopvars>>

write(p, pheromone_type, file_key, data) ==
    Invoke(p, "write", pheromone_type, file_key, data)

update(p, pheromone_type, file_key, fields) ==
    Invoke(p, "update", pheromone_type, file_key, fields)

\* Mutant: the payload written back is not the one loaded under the lock.
_upsert_entry_NoReload(p) ==
    /\ proc[p].pc = "checked"
    /\ LET c == proc[p]
           previous_entry == read_one(store, c.pheromone_type, c.file_key)
           updated_entry == transform(c.action, c.pheromone_type,
                                previous_entry, c.payload, p)
       IN  /\ store' = [store EXCEPT ![c.pheromone_type] =
                            Put(EmptyDict, c.file_key, updated_entry)]
           /\ proc' = [proc EXCEPT ![p] =
                  [c EXCEPT !.pc = "committed",
                            !.previous_values = previous_entry,
                            !.updated_entry = updated_entry]]
    /\ UNCHANGED <<audit, now, loopvars>>

\* _upsert_entry: read-modify-write of one namespace under its exclusive lock;
\* _load_json_from_handle raises on a file that does not parse.
_upsert_entry(p) ==
    /\ proc[p].pc = "checked"
    /\ LET c == proc[p]
           previous_entry == read_one(store, c.pheromone_type, c.file_key)
           updated_entry == transform(c.action, c.pheromone_type,
                                previous_entry, c.payload, p)
       IN  IF c.pheromone_type \in partial_json
           THEN /\ store' = store
                /\ proc' = [proc EXCEPT ![p] =
                       [IdleProc EXCEPT !.raised = "PheromoneStoreError",
                                        !.file_key = c.file_key]]
           ELSE /\ store' = [store EXCEPT ![c.pheromone_type] =
                                 Put(@, c.file_key, updated_entry)]
                /\ proc' = [proc EXCEPT ![p] =
                       [c EXCEPT !.pc = "committed",
                                 !.previous_values = previous_entry,
                                 !.updated_entry = updated_entry]]
    /\ UNCHANGED <<audit, now, loopvars>>

\* _append_audit_event, after the namespace lock has been released.
_append_audit_event(p) ==
    /\ proc[p].pc = "committed"
    /\ LET c == proc[p]
       IN  audit' = Append(audit,
               AuditEvent(p, c.pheromone_type, c.file_key, c.action,
                          c.previous_values, c.updated_entry))
    /\ proc' = [proc EXCEPT ![p] = IdleProc]
    /\ UNCHANGED <<store, now, loopvars>>

\* Ticks handed to maintain_status by its caller.
MaintainTicks == {scope_lock_ttl + 1, scope_lock_ttl + 2}

maintain_status(current_tick) ==
    /\ CanCall
    /\ store' = [store EXCEPT !["status"] = MaintainedStatus(@, current_tick)]
    /\ audit' = audit \o MaintainEvents(store["status"], current_tick)
    /\ UNCHANGED <<now, proc, loopvars>>

apply_decay ==
    /\ CanCall
    /\ store' = [store EXCEPT !["tasks"] = DecayedTasks(@, store["status"])]
    /\ audit' = audit \o TaskDecayEvents(store["tasks"], store["status"])
    /\ UNCHANGED <<now, proc, loopvars>>

apply_decay_inhibition ==
    /\ CanCall
    /\ store' = [store EXCEPT !["status"] = DecayedInhibition(@)]
    /\ audit' = audit \o InhibitionDecayEvents(store["status"])
    /\ UNCHANGED <<now, proc, loopvars>>

\* One second passes.
ClockTick ==
    /\ now < MaxNow
    /\ now' = now + 1
    /\ UNCHANGED <<store, audit, proc, loopvars>>

\* No summary file has been written.
NoSummary == [stop_reason |-> "none", total_ticks |-> 0]

\* run_loop before its first tick, with a fresh LLM client and the target
\* repository as checked out.
LoopStart ==
    /\ tick = 0
    /\ pc = "maintain"
    /\ idle_cycles = 0
    /\ stop_reason = "max_ticks"
    /\ agents_acted = EmptyDict
    /\ total_tokens_used = 0
    /\ summary = NoSummary
    /\ repo = [f \in Files |-> [worktree |-> 0, head |-> 0]]
    /\ local = EmptyDict

\* _ensure_store_files: three empty namespaces and an empty audit log.
Init ==
    /\ store = [ns \in PHEROMONE_FILE_MAP |-> EmptyDict]
    /\ audit = <<>>
    /\ now = 0
    /\ proc = [p \in Agents |-> IdleProc]
    /\ max_budget_usd = 0
    /\ partial_json = {}
    /\ LoopStart

Next ==
    \/ \E p \in Agents, ns \in PHEROMONE_FILE_MAP, k \in Files :
          \E d \in Payloads("write", ns) : write(p, ns, k, d)
    \/ \E p \in Agents, ns \in PHEROMONE_FILE_MAP, k \in Files :
          \E d \in Payloads("update", ns) : update(p, ns, k, d)
    \/ \E p \in Agents : _upsert_entry(p)
    \/ \E p \in Agents : _append_audit_event(p)
    \/ \E t \in MaintainTicks : maintain_status(t)
    \/ apply_decay
    \/ apply_decay_inhibition
    \/ ClockTick

Spec == Init /\ [][Next]_vars

\* ------------------------------------------- SpecLoop: configuration values

\* Ticks of one run (loop.max_ticks).
max_ticks == 5
idle_cycles_to_stop == 2
\* Token budget and per-call figures, in units of 1000 tokens.
max_tokens_total == 100
\* _estimate_usage: prompt estimate plus the 4096-token completion allowance.
EstimatedTokens == 5
\* usage.prompt_tokens + usage.completion_tokens a response reports.
TokenUsages == {10}
\* A cost budget, and the price of 1000 tokens, in the same money unit
\* (ModelPricing: one price for prompt and completion, no request cost).
CostBudget == 15
TokenPrice == 1

TERMINAL_STATUSES == {"validated", "skipped", "needs_review"}
transformer_intensity_min == 20
inhibition_threshold == 10
validator_confidence_high == 80
validator_confidence_low == 50
repair_attempts_max == 2
\* task_intensity_clamp = [0.1, 1.0]
TaskIntensityClampMin == 10
\* The 0.5 a failed attempt adds to inhibition.
InhibitionStep == 50
\* The 0.1 / 0.2 the Validator adds to / takes from confidence.
ConfidenceBonus == 10
ConfidencePenalty == 20

\* Scout raw scores (pattern_count * 0.6 + dep_count * 0.4, in tenths).
RawScores == {6, 12}
\* Confidence the Tester computes from the test run.
Confidences == {20, 60, 90}
\* What one llm_client.call plus the syntax gate can come to.
LLMOutcomes == {"error", "empty", "syntax_error", "ok"}

\* ------------------------------------- store calls of the scheduler thread

\* The medium as the single scheduler thread sees it between two calls.
Medium == [store |-> store, audit |-> audit, raised |-> "none"]

\* write()/update() run to completion (check, upsert, audit) on medium s; a
\* ScopeLockError aborts the calls that would follow it.
Called(s, action, pheromone_type, file_key, payload, agent_id) ==
    IF s.raised # "none" THEN s
    ELSE IF ~_enforce_scope_lock(s.store, pheromone_type, file_key, agent_id)
    THEN [s EXCEPT !.raised = "ScopeLockError"]
    ELSE
      LET previous_entry == read_one(s.store, pheromone_type, file_key)
          updated_entry == transform(action, pheromone_type, previous_entry,
                                     payload, agent_id)
      IN  [ store |-> [s.store EXCEPT ![pheromone_type] =
                            Put(@, file_key, updated_entry)],
            audit |-> Append(s.audit,
                        AuditEvent(agent_id, pheromone_type, file_key, action,
                                   previous_entry, updated_entry)),
            raised |-> "none" ]

\* The calls' effect becomes the state; an exception leaves run_loop.
Deposited(s, next_pc) ==
    /\ store' = s.store
    /\ audit' = s.audit
    /\ pc' = IF s.raised # "none" THEN "crashed" ELSE next_pc

FileIndex(k) == CHOOSE i \in 1..Len(FileOrder) : FileOrder[i] = k
\* sorted(candidates)[0]
FirstKey(keys) == CHOOSE k \in keys : \A j \in keys : FileIndex(k) <= FileIndex(j)

NoLocal == EmptyDict

\* ------------------------------------------------------------------- Scout

\* scout.llm_analysis.enabled = false: the raw score comes from the regex and
\* AST detectors alone, and the Scout makes no LLM call.
Scout_perceive(data) ==
    {k \in Files :
        /\ ~Has(read_all(data, "tasks"), k)
        /\ Get(read_one(data, "status", k), "status", "none")
              \notin TERMINAL_STATUSES}

\* Scout.execute: min-max normalisation of the raw scores, clamped.
Scout_execute(raw_score, k) ==
    LET score_min == CHOOSE m \in {raw_score[j] : j \in DOMAIN raw_score} :
                        \A j \in DOMAIN raw_score : m <= raw_score[j]
        score_max == CHOOSE m \in {raw_score[j] : j \in DOMAIN raw_score} :
                        \A j \in DOMAIN raw_score : m >= raw_score[j]
        normalized == IF score_max = score_min THEN One \div 2
                      ELSE ((raw_score[k] - score_min) * One)
                              \div (score_max - score_min)
    IN  Maximum(TaskIntensityClampMin, Minimum(One, normalized))

RECURSIVE Scout_deposit(_, _, _)
Scout_deposit(s, entries, raw_score) ==
    IF entries = <<>> THEN s
    ELSE
      LET file_key == Head(entries)
          s1 == Called(s, "write", "tasks", file_key,
                    [intensity |-> Scout_execute(raw_score, file_key)], "scout")
          s2 == Called(s1, "write", "status", file_key,
                    [status |-> "pending", retry_count |-> 0, inhibition |-> 0],
                    "scout")
      IN  Scout_deposit(s2, Tail(entries), raw_score)

\* ------------------------------------------------------------- Transformer

\* Mutant: an inhibited file is no candidate.
Transformer_candidates_SkipsInhibited(data) ==
    {k \in DOMAIN read_all(data, "status") :
        /\ Get(data["status"][k], "status", "none") \in {"pending", "retry"}
        /\ Get(data["status"][k], "inhibition", 0) < inhibition_threshold
        /\ read_one(data, "tasks", k) # EmptyDict}

\* Mutant: files waiting for a human review are candidates too.
Transformer_candidates_IncludesReview(data) ==
    {k \in DOMAIN read_all(data, "status") :
        /\ Get(data["status"][k], "status", "none")
              \in {"pending", "retry", "needs_review"}
        /\ read_one(data, "tasks", k) # EmptyDict}

Transformer_candidates(data) ==
    {k \in DOMAIN read_all(data, "status") :
        /\ Get(data["status"][k], "status", "none") \in {"pending", "retry"}
        /\ read_one(data, "tasks", k) # EmptyDict}

\* Mutant: one tier, the most intense candidate first, inhibited or not.
Transformer_perceive_NoTiers(data) ==
    LET intensity(k) == Get(data["tasks"][k], "intensity", 0)
        candidates == Transformer_candidates(data)
        ByIntensity(a, b) ==
            \/ intensity(a) > intensity(b)
            \/ intensity(a) = intensity(b) /\ FileIndex(a) <= FileIndex(b)
    IN  CHOOSE k \in candidates : \A j \in candidates : ByIntensity(k, j)

\* Transformer.perceive + decide: candidates[0] of the first non-empty tier.
Transformer_perceive(data) ==
    LET intensity(k) == Get(data["tasks"][k], "intensity", 0)
        inhibition(k) == Get(data["status"][k], "inhibition", 0)
        candidates == Transformer_candidates(data)
        fallback == {k \in candidates : inhibition(k) < inhibition_threshold}
        preferred == {k \in fallback : intensity(k) > transformer_intensity_min}
        ByIntensity(a, b) ==
            \/ intensity(a) > intensity(b)
            \/ intensity(a) = intensity(b) /\ FileIndex(a) <= FileIndex(b)
        ByInhibition(a, b) ==
            \/ inhibition(a) < inhibition(b)
            \/ inhibition(a) = inhibition(b) /\ ByIntensity(a, b)
    IN  IF preferred # {}
        THEN CHOOSE k \in preferred : \A j \in preferred : ByIntensity(k, j)
        ELSE IF fallback # {}
        THEN CHOOSE k \in fallback : \A j \in fallback : ByIntensity(k, j)
        ELSE CHOOSE k \in candidates : \A j \in candidates : ByInhibition(k, j)

\* Mutant: a retryable failure reports the retry_count it found.
Transformer_result_RetryNotCounted(outcome) ==
    [ agent |-> "transformer",
      file_key |-> local.file_key,
      outcome |-> outcome,
      repair_attempts_used |-> local.repair_attempts_used,
      retry_count |-> local.retry_count,
      inhibition |-> IF outcome = "retryable"
                     THEN local.inhibition + InhibitionStep
                     ELSE local.inhibition ]

\* The result dict Transformer.execute returns.
Transformer_result(outcome) ==
    [ agent |-> "transformer",
      file_key |-> local.file_key,
      outcome |-> outcome,
      repair_attempts_used |-> local.repair_attempts_used,
      retry_count |-> IF outcome = "retryable" THEN local.retry_count + 1
                      ELSE local.retry_count,
      inhibition |-> IF outcome = "retryable"
                     THEN local.inhibition + InhibitionStep
                     ELSE local.inhibition ]

\* --------------------------------------------------------------- Validator

\* Mutant: a rollback requeues the file itself (pending for retry).
Validator_decision_RollbackToPending(confidence, retry_count, inhibition) ==
    IF confidence >= validator_confidence_high
    THEN [ status |-> "validated", git |-> "commit",
           updated_confidence |-> Minimum(One, confidence + ConfidenceBonus),
           retry_count |-> retry_count, inhibition |-> inhibition ]
    ELSE IF confidence >= validator_confidence_low
    THEN [ status |-> "needs_review", git |-> "none",
           updated_confidence |-> confidence,
           retry_count |-> retry_count, inhibition |-> inhibition ]
    ELSE [ status |-> "pending", git |-> "rollback",
           updated_confidence |-> Maximum(0, confidence - ConfidencePenalty),
           retry_count |-> retry_count + 1,
           inhibition |-> inhibition + InhibitionStep ]

\* Mutant: a confidence equal to the high threshold is not enough.
Validator_decision_StrictHigh(confidence, retry_count, inhibition) ==
    IF confidence > validator_confidence_high
    THEN [ status |-> "validated", git |-> "commit",
           updated_confidence |-> Minimum(One, confidence + ConfidenceBonus),
           retry_count |-> retry_count, inhibition |-> inhibition ]
    ELSE IF confidence >= validator_confidence_low
    THEN [ status |-> "needs_review", git |-> "none",
           updated_confidence |-> confidence,
           retry_count |-> retry_count, inhibition |-> inhibition ]
    ELSE
      LET next_retry_count == retry_count + 1
          next_status == IF next_retry_count <= max_retry_count
                         THEN "retry" ELSE "skipped"
      IN  [ status |-> next_status, git |-> "rollback",
            updated_confidence |-> Maximum(0, confidence - ConfidencePenalty),
            retry_count |-> next_retry_count,
            inhibition |-> IF next_status = "retry"
                           THEN inhibition + InhibitionStep ELSE inhibition ]

\* Mutant: the last allowed retry is already skipped.
Validator_decision_LimitExclusive(confidence, retry_count, inhibition) ==
    IF confidence >= validator_confidence_high
    THEN [ status |-> "validated", git |-> "commit",
           updated_confidence |-> Minimum(One, confidence + ConfidenceBonus),
           retry_count |-> retry_count, inhibition |-> inhibition ]
    ELSE IF confidence >= validator_confidence_low
    THEN [ status |-> "needs_review", git |-> "none",
           updated_confidence |-> confidence,
           retry_count |-> retry_count, inhibition |-> inhibition ]
    ELSE
      LET next_retry_count == retry_count + 1
          next_status == IF next_retry_count < max_retry_count
                         THEN "retry" ELSE "skipped"
      IN  [ status |-> next_status, git |-> "rollback",
            updated_confidence |-> Maximum(0, confidence - ConfidencePenalty),
            retry_count |-> next_retry_count,
            inhibition |-> IF next_status = "retry"
                           THEN inhibition + InhibitionStep ELSE inhibition ]

\* Validator.execute: the decision taken from the confidence thresholds.
Validator_decision(confidence, retry_count, inhibition) ==
    IF confidence >= validator_confidence_high
    THEN [ status |-> "validated", git |-> "commit",
           updated_confidence |-> Minimum(One, confidence + ConfidenceBonus),
           retry_count |-> retry_count, inhibition |-> inhibition ]
    ELSE IF confidence >= validator_confidence_low
    THEN [ status |-> "needs_review", git |-> "none",
           updated_confidence |-> confidence,
           retry_count |-> retry_count, inhibition |-> inhibition ]
    ELSE
      LET next_retry_count == retry_count + 1
          next_status == IF next_retry_count <= max_retry_count
                         THEN "retry" ELSE "skipped"
      IN  [ status |-> next_status, git |-> "rollback",
            updated_confidence |-> Maximum(0, confidence - ConfidencePenalty),
            retry_count |-> next_retry_count,
            inhibition |-> IF next_status = "retry"
                           THEN inhibition + InhibitionStep ELSE inhibition ]

\* -------------------------------------------------------- SpecLoop: run_loop

\* LLMClient.total_cost_usd: with a cost budget the pricing is known and
\* every answered call adds the price of the tokens it used; without one no
\* pricing is fetched and nothing is added.
total_cost_usd ==
    IF max_budget_usd > 0 THEN total_tokens_used * TokenPrice ELSE 0

\* Mutant: the estimate of the call is left out of the check.
check_budget_UsedOnly(estimated_tokens) ==
    total_tokens_used <= max_tokens_total

check_budget(estimated_tokens) ==
    total_tokens_used + estimated_tokens <= max_tokens_total

check_cost_budget(estimated_cost_usd) ==
    \/ max_budget_usd <= 0
    \/ total_cost_usd + estimated_cost_usd <= max_budget_usd

\* Mutant: any non-empty status namespace counts as drained.
_all_terminal_AnyEntry(status_entries) ==
    status_entries # EmptyDict

_all_terminal(status_entries) ==
    /\ status_entries # EmptyDict
    /\ \A k \in DOMAIN status_entries :
          Get(status_entries[k], "status", "pending") \in TERMINAL_STATUSES

run_loop_maintain_status ==
    /\ pc = "maintain"
    /\ store' = [store EXCEPT !["status"] = MaintainedStatus(@, tick)]
    /\ audit' = audit \o MaintainEvents(store["status"], tick)
    /\ pc' = "apply_decay"
    /\ UNCHANGED <<now, proc, tick, idle_cycles, stop_reason, agents_acted,
                   total_tokens_used, max_budget_usd, partial_json, summary, repo, local>>

run_loop_apply_decay ==
    /\ pc = "apply_decay"
    /\ store' = [store EXCEPT !["tasks"] = DecayedTasks(@, store["status"])]
    /\ audit' = audit \o TaskDecayEvents(store["tasks"], store["status"])
    /\ pc' = "apply_decay_inhibition"
    /\ UNCHANGED <<now, proc, tick, idle_cycles, stop_reason, agents_acted,
                   total_tokens_used, max_budget_usd, partial_json, summary, repo, local>>

\* Mutant: the agents start with the Transformer.
run_loop_apply_decay_inhibition_SkipsScout ==
    /\ pc = "apply_decay_inhibition"
    /\ store' = [store EXCEPT !["status"] = DecayedInhibition(@)]
    /\ audit' = audit \o InhibitionDecayEvents(store["status"])
    /\ pc' = "transformer"
    /\ UNCHANGED <<now, proc, tick, idle_cycles, stop_reason, agents_acted,
                   total_tokens_used, max_budget_usd, partial_json, summary, repo, local>>

run_loop_apply_decay_inhibition ==
    /\ pc = "apply_decay_inhibition"
    /\ store' = [store EXCEPT !["status"] = DecayedInhibition(@)]
    /\ audit' = audit \o InhibitionDecayEvents(store["status"])
    /\ pc' = "scout"
    /\ UNCHANGED <<now, proc, tick, idle_cycles, stop_reason, agents_acted,
                   total_tokens_used, max_budget_usd, partial_json, summary, repo, local>>

\* Scout.run(); agents_acted starts afresh with the first agent of the tick.
\* Mutant: an idle Scout reports that it acted.
Scout_run_IdleReturnsTrue ==
    /\ pc = "scout"
    /\ LET candidate_files == Scout_perceive(store)
       IN  IF candidate_files = {}
           THEN /\ agents_acted' = [a \in {"scout"} |-> TRUE]
                /\ pc' = "transformer"
                /\ UNCHANGED <<store, audit>>
           ELSE \E raw_score \in [candidate_files -> RawScores] :
                /\ Deposited(Scout_deposit(Medium,
                        SelectSeq(FileOrder, LAMBDA k : k \in candidate_files),
                        raw_score), "transformer")
                /\ agents_acted' = [a \in {"scout"} |-> TRUE]
    /\ UNCHANGED <<now, proc, tick, idle_cycles, stop_reason,
                   total_tokens_used, max_budget_usd, partial_json, summary, repo, local>>

Scout_run ==
    /\ pc = "scout"
    /\ LET candidate_files == Scout_perceive(store)
       IN  IF candidate_files = {}
           THEN /\ agents_acted' = [a \in {"scout"} |-> FALSE]
                /\ pc' = "transformer"
                /\ UNCHANGED <<store, audit>>
           ELSE \E raw_score \in [candidate_files -> RawScores] :
                /\ Deposited(Scout_deposit(Medium,
                        SelectSeq(FileOrder, LAMBDA k : k \in candidate_files),
                        raw_score), "transformer")
                /\ agents_acted' = [a \in {"scout"} |-> TRUE]
    /\ UNCHANGED <<now, proc, tick, idle_cycles, stop_reason,
                   total_tokens_used, max_budget_usd, partial_json, summary, repo, local>>

\* Transformer.run() up to the lock acquisition that opens execute().
Transformer_execute_lock ==
    /\ pc = "transformer"
    /\ IF Transformer_candidates(store) = {}
       THEN /\ agents_acted' = Put(agents_acted, "transformer", FALSE)
            /\ pc' = "tester"
            /\ UNCHANGED <<store, audit, local>>
       ELSE
         LET file_key == Transformer_perceive(store)
             status_entry == store["status"][file_key]
             retry_count == Get(status_entry, "retry_count", 0)
             inhibition == Get(status_entry, "inhibition", 0)
         IN  /\ Deposited(
                   Called(Medium, "update", "status", file_key,
                       [ status |-> "in_progress",
                         previous_status |-> Get(status_entry, "status", "pending"),
                         retry_count |-> retry_count,
                         inhibition |-> inhibition,
                         current_tick |-> tick ],
                       "transformer"),
                   "transformer_llm")
             /\ local' = [ agent |-> "transformer", file_key |-> file_key,
                           outcome |-> "none", repair_attempts_used |-> 0,
                           retry_count |-> retry_count,
                           inhibition |-> inhibition ]
             /\ UNCHANGED agents_acted
    /\ UNCHANGED <<now, proc, tick, idle_cycles, stop_reason,
                   total_tokens_used, max_budget_usd, partial_json, summary, repo>>

\* One llm_client.call of execute() with what follows it: the syntax gate, a
\* further repair round, or the write of the transformed file.
Transformer_execute_llm ==
    /\ pc = "transformer_llm"
    /\ \E outcome \in LLMOutcomes, tokens_used \in TokenUsages :
        LET within_budget ==
                /\ check_budget(EstimatedTokens)
                /\ check_cost_budget(EstimatedTokens * TokenPrice)
            answered == within_budget /\ outcome # "error"
        IN  /\ total_tokens_used' = IF answered
                                    THEN total_tokens_used + tokens_used
                                    ELSE total_tokens_used
            /\ IF ~answered \/ outcome = "empty"
               THEN /\ local' = Transformer_result(
                                   IF within_budget THEN "fatal"
                                   ELSE "budget_exceeded")
                    /\ pc' = "transformer_deposit"
                    /\ UNCHANGED repo
               ELSE IF outcome = "syntax_error"
               THEN IF local.repair_attempts_used < repair_attempts_max
                    THEN /\ local' = [local EXCEPT !.repair_attempts_used = @ + 1]
                         /\ UNCHANGED <<pc, repo>>
                    ELSE /\ local' = Transformer_result("retryable")
                         /\ pc' = "transformer_deposit"
                         /\ UNCHANGED repo
               ELSE /\ repo' = [repo EXCEPT ![local.file_key] =
                                  [@ EXCEPT !.worktree = @ + 1]]
                    /\ local' = Transformer_result("success")
                    /\ pc' = "transformer_deposit"
    /\ UNCHANGED <<store, audit, now, proc, tick, idle_cycles, stop_reason,
                   agents_acted, max_budget_usd, partial_json, summary>>

\* Mutant: a non-retryable failure returns without its deposit.
Transformer_deposit_DropsFailure ==
    /\ pc = "transformer_deposit"
    /\ IF local.outcome \in {"success", "retryable"}
       THEN Deposited(
              Called(Medium, "update", "status", local.file_key,
                  [ status |-> IF local.outcome = "success"
                               THEN "transformed" ELSE "retry",
                    previous_status |-> "in_progress",
                    retry_count |-> local.retry_count,
                    inhibition |-> local.inhibition ],
                  "transformer"),
              "tester")
       ELSE /\ pc' = "tester"
            /\ UNCHANGED <<store, audit>>
    /\ agents_acted' = Put(agents_acted, "transformer", TRUE)
    /\ local' = NoLocal
    /\ UNCHANGED <<now, proc, tick, idle_cycles, stop_reason,
                   total_tokens_used, max_budget_usd, partial_json, summary, repo>>

Transformer_deposit ==
    /\ pc = "transformer_deposit"
    /\ Deposited(
          Called(Medium, "update", "status", local.file_key,
              LET fields ==
                    [ status |-> CASE local.outcome = "success" -> "transformed"
                                   [] local.outcome = "retryable" -> "retry"
                                   [] OTHER -> "failed",
                      previous_status |-> "in_progress",
                      retry_count |-> local.retry_count,
                      inhibition |-> local.inhibition ]
              \* metadata: of its fields only the error of a failure is kept.
              IN  IF local.outcome \in {"success", "retryable"} THEN fields
                  ELSE Put(fields, "metadata", [error |-> local.outcome]),
              "transformer"),
          "tester")
    /\ agents_acted' = Put(agents_acted, "transformer", TRUE)
    /\ local' = NoLocal
    /\ UNCHANGED <<now, proc, tick, idle_cycles, stop_reason,
                   total_tokens_used, max_budget_usd, partial_json, summary, repo>>

Tester_candidates(data) ==
    {k \in DOMAIN read_all(data, "status") :
        Get(data["status"][k], "status", "none") = "transformed"}

\* Tester.run(): the test run's confidence is an input.
Tester_run ==
    /\ pc = "tester"
    /\ IF Tester_candidates(store) = {}
       THEN /\ agents_acted' = Put(agents_acted, "tester", FALSE)
            /\ pc' = "validator"
            /\ UNCHANGED <<store, audit>>
       ELSE
         \/ \E confidence \in Confidences :
             LET file_key == FirstKey(Tester_candidates(store))
                 status_entry == store["status"][file_key]
                 s1 == Called(Medium, "write", "quality", file_key,
                           [confidence |-> confidence], "tester")
                 s2 == Called(s1, "update", "status", file_key,
                           [ status |-> "tested",
                             previous_status |-> "transformed",
                             retry_count |-> Get(status_entry, "retry_count", 0),
                             inhibition |-> Get(status_entry, "inhibition", 0) ],
                           "tester")
             IN  /\ Deposited(s2, "validator")
                 /\ agents_acted' = Put(agents_acted, "tester", TRUE)
         \* subprocess.run raises (the interpreter cannot be started, or the
         \* output does not decode): nothing in execute() or run() catches it.
         \/ /\ pc' = "crashed"
            /\ UNCHANGED <<store, audit, agents_acted>>
    /\ UNCHANGED <<now, proc, tick, idle_cycles, stop_reason,
                   total_tokens_used, max_budget_usd, partial_json, summary, repo, local>>

Validator_candidates(data) ==
    {k \in DOMAIN read_all(data, "status") :
        Get(data["status"][k], "status", "none") = "tested"}

\* Validator.run() through execute(): the decision and its git operation,
\* which may fail (git_ok = FALSE).
Validator_execute ==
    /\ pc = "validator"
    /\ IF Validator_candidates(store) = {}
       THEN /\ agents_acted' = Put(agents_acted, "validator", FALSE)
            /\ pc' = "record_tick"
            /\ UNCHANGED <<local, repo>>
       ELSE \E git_ok \in BOOLEAN :
         LET file_key == FirstKey(Validator_candidates(store))
             status_entry == store["status"][file_key]
             quality_entry == read_one(store, "quality", file_key)
             retry_count == Get(status_entry, "retry_count", 0)
             inhibition == Get(status_entry, "inhibition", 0)
             decision == Validator_decision(Get(quality_entry, "confidence", 0),
                                            retry_count, inhibition)
             success == git_ok \/ decision.git = "none"
         IN  /\ repo' = [repo EXCEPT ![file_key] =
                    IF success /\ decision.git = "commit"
                    THEN [@ EXCEPT !.head = repo[file_key].worktree]
                    ELSE IF success /\ decision.git = "rollback"
                    THEN [@ EXCEPT !.worktree = repo[file_key].head]
                    ELSE @]
             /\ local' =
                    IF success
                    THEN [ agent |-> "validator", file_key |-> file_key,
                           outcome |-> "success", status |-> decision.status,
                           updated_confidence |-> decision.updated_confidence,
                           retry_count |-> decision.retry_count,
                           inhibition |-> decision.inhibition ]
                    ELSE [ agent |-> "validator", file_key |-> file_key,
                           outcome |-> "error", status |-> "failed",
                           updated_confidence |-> 0,
                           retry_count |-> retry_count,
                           inhibition |-> inhibition ]
             /\ pc' = "validator_deposit"
             /\ UNCHANGED agents_acted
    /\ UNCHANGED <<store, audit, now, proc, tick, idle_cycles, stop_reason,
                   total_tokens_used, max_budget_usd, partial_json, summary>>

\* Mutant: a failed decision is raised instead of deposited.
Validator_deposit_ErrorPropagates ==
    /\ pc = "validator_deposit"
    /\ IF local.outcome # "success"
       THEN /\ pc' = "crashed"
            /\ UNCHANGED <<store, audit, agents_acted, local>>
       ELSE /\ Deposited(
                  Called(Called(Medium, "update", "quality", local.file_key,
                                [confidence |-> local.updated_confidence],
                                "validator"),
                         "update", "status", local.file_key,
                         [ status |-> local.status,
                           previous_status |-> "tested",
                           retry_count |-> local.retry_count,
                           inhibition |-> local.inhibition ],
                         "validator"),
                  "record_tick")
            /\ agents_acted' = Put(agents_acted, "validator", TRUE)
            /\ local' = NoLocal
    /\ UNCHANGED <<now, proc, tick, idle_cycles, stop_reason,
                   total_tokens_used, max_budget_usd, partial_json, summary, repo>>

Validator_deposit ==
    /\ pc = "validator_deposit"
    /\ LET status_fields ==
               [ status |-> local.status,
                 previous_status |-> "tested",
                 retry_count |-> local.retry_count,
                 inhibition |-> local.inhibition,
                 \* decision_metadata (its decision) or the error of a failure
                 metadata |->
                    IF local.outcome # "success" THEN [error |-> local.outcome]
                    ELSE [decision |->
                            CASE local.status = "validated" -> "auto_validate"
                              [] local.status = "needs_review" -> "human_escalation"
                              [] OTHER -> "rollback"] ]
           s1 == IF local.outcome = "success"
                 THEN Called(Medium, "update", "quality", local.file_key,
                          [confidence |-> local.updated_confidence], "validator")
                 ELSE Medium
       IN  Deposited(
              Called(s1, "update", "status", local.file_key, status_fields,
                     "validator"),
              "record_tick")
    /\ agents_acted' = Put(agents_acted, "validator", TRUE)
    /\ local' = NoLocal
    /\ UNCHANGED <<now, proc, tick, idle_cycles, stop_reason,
                   total_tokens_used, max_budget_usd, partial_json, summary, repo>>

\* The end of a tick: metrics row, idle counter and the stop conditions.
run_loop_record_tick ==
    /\ pc = "record_tick"
    /\ LET status_entries == read_all(store, "status")
           any_acted == \E a \in DOMAIN agents_acted : agents_acted[a]
           idle == IF any_acted THEN 0 ELSE idle_cycles + 1
           reason == IF _all_terminal(status_entries) THEN "all_terminal"
                     ELSE IF total_tokens_used >= max_tokens_total
                     THEN "budget_exhausted"
                     ELSE IF idle >= idle_cycles_to_stop THEN "idle_cycles"
                     ELSE "none"
       IN  /\ idle_cycles' = idle
           /\ IF reason # "none"
              THEN /\ stop_reason' = reason
                   /\ pc' = "stopped"
                   /\ UNCHANGED tick
              ELSE IF tick + 1 < max_ticks
              THEN /\ tick' = tick + 1
                   /\ pc' = "maintain"
                   /\ UNCHANGED stop_reason
              ELSE /\ pc' = "stopped"
                   /\ UNCHANGED <<tick, stop_reason>>
    /\ UNCHANGED <<store, audit, now, proc, agents_acted, total_tokens_used,
                   max_budget_usd, partial_json, summary, repo, local>>

\* After the loop: build_summary(stop_reason) and write_summary_json.
run_loop_write_summary ==
    /\ pc = "stopped"
    /\ summary' = [stop_reason |-> stop_reason, total_ticks |-> tick + 1]
    /\ pc' = "returned"
    /\ UNCHANGED <<store, audit, now, proc, tick, idle_cycles, stop_reason,
                   agents_acted, total_tokens_used, max_budget_usd, partial_json, repo, local>>

\* What a run interrupted inside Transformer.execute leaves behind for the
\* next run: the Scout's task and an in_progress entry that keeps its lock.
ResumedTask ==
    [intensity |-> One \div 2, timestamp |-> 0, created_by |-> "scout"]
ResumedStatus(retry_count) ==
    [ status |-> "in_progress", previous_status |-> "pending",
      retry_count |-> retry_count, inhibition |-> 0,
      lock_owner |-> "transformer", lock_acquired_tick |-> 0,
      timestamp |-> 0, created_by |-> "scout", updated_by |-> "transformer" ]

ResumedRun ==
    /\ \E resumed \in SUBSET Files :
        \E retry_count \in [resumed -> {0, max_retry_count}] :
            store = [ns \in PHEROMONE_FILE_MAP |->
                        CASE ns = "tasks" -> [k \in resumed |-> ResumedTask]
                          [] ns = "status" ->
                                [k \in resumed |-> ResumedStatus(retry_count[k])]
                          [] OTHER -> EmptyDict]
    /\ audit = <<>>
    /\ now = 0
    /\ proc = [p \in Agents |-> IdleProc]
    /\ LoopStart

\* llm.max_budget_usd defaults to 0.0: no cost budget.
InitLoop ==
    /\ ResumedRun
    /\ max_budget_usd = 0
    /\ partial_json = {}

NextLoop ==
    \/ run_loop_maintain_status
    \/ run_loop_apply_decay
    \/ run_loop_apply_decay_inhibition
    \/ Scout_run
    \/ Transformer_execute_lock
    \/ Transformer_execute_llm
    \/ Transformer_deposit
    \/ Tester_run
    \/ Validator_execute
    \/ Validator_deposit
    \/ run_loop_record_tick
    \/ run_loop_write_summary

\* One scheduler thread; the run's store calls fall within one clock second
\* (no statement of the loop or of an agent reads a timestamp).
SpecLoop == InitLoop /\ [][NextLoop]_vars

\* The same run with a cost budget configured (llm.max_budget_usd > 0).
InitBudget ==
    /\ ResumedRun
    /\ max_budget_usd = CostBudget
    /\ partial_json = {}

SpecBudget == InitBudget /\ [][NextLoop]_vars

\* ------------------------------------------- SpecDecay: the decay passes

\* Intensities and inhibitions a store can hold when a decay pass starts:
\* both ends of the unit interval, the smallest positive value, the middle.
DecayIntensities == {0, 1, One \div 2, One}
DecayInhibitions == {0, One \div 2, One}
DecayStatuses == {"pending", "retry", "in_progress", "validated"}

DecayTasksData ==
    UNION { [ks -> { [intensity |-> v, timestamp |-> 0, created_by |-> "scout"] :
                        v \in DecayIntensities }] : ks \in SUBSET Files }
DecayStatusData ==
    UNION { [ks -> { [status |-> st, retry_count |-> 0, inhibition |-> h,
                      timestamp |-> 0, created_by |-> "scout"] :
                        st \in DecayStatuses, h \in DecayInhibitions }] :
            ks \in SUBSET Files }

\* A store as a run finds it: tasks the Scout wrote, and status entries for
\* some of them (a task whose status write never happened has none).
InitDecay ==
    /\ \E tasks_data \in DecayTasksData, status_data \in DecayStatusData :
          /\ DOMAIN status_data \subseteq DOMAIN tasks_data
          /\ store = [ns \in PHEROMONE_FILE_MAP |->
                        CASE ns = "tasks" -> tasks_data
                          [] ns = "status" -> status_data
                          [] OTHER -> EmptyDict]
    /\ audit = <<>>
    /\ now = 0
    /\ proc = [p \in Agents |-> IdleProc]
    /\ max_budget_usd = 0
    /\ partial_json = {}
    /\ LoopStart

NextDecay ==
    \/ apply_decay
    \/ apply_decay_inhibition

SpecDecay == InitDecay /\ [][NextDecay]_vars

\* ------------------------------------- SpecSelect: one Transformer.run()

\* Task intensities and inhibitions on both sides of the two thresholds.
SelectIntensities ==
    {TaskIntensityClampMin, transformer_intensity_min, One \div 2, One}
SelectInhibitions ==
    {0, inhibition_threshold - 1, inhibition_threshold, One \div 2}
SelectStatuses == {"pending", "retry", "tested"}

SelectTasksData ==
    UNION { [ks -> { [intensity |-> v, timestamp |-> 0, created_by |-> "scout"] :
                        v \in SelectIntensities }] : ks \in SUBSET Files }
SelectStatusData(ks) ==
    [ks -> { [status |-> st, retry_count |-> 0, inhibition |-> h,
              timestamp |-> 0, created_by |-> "scout"] :
                st \in SelectStatuses, h \in SelectInhibitions }]

\* The scheduler is about to call Transformer.run() on a store in which the
\* Scout has deposited a task and a status entry for some files.
InitSelect ==
    /\ \E tasks_data \in SelectTasksData :
        \E status_data \in SelectStatusData(DOMAIN tasks_data) :
          store = [ns \in PHEROMONE_FILE_MAP |->
                      CASE ns = "tasks" -> tasks_data
                        [] ns = "status" -> status_data
                        [] OTHER -> EmptyDict]
    /\ audit = <<>>
    /\ now = 0
    /\ proc = [p \in Agents |-> IdleProc]
    /\ max_budget_usd = 0
    /\ partial_json = {}
    /\ tick = 1
    /\ pc = "transformer"
    /\ idle_cycles = 0
    /\ stop_reason = "max_ticks"
    /\ agents_acted = [a \in {"scout"} |-> FALSE]
    /\ total_tokens_used = 0
    /\ summary = NoSummary
    /\ repo = [f \in Files |-> [worktree |-> 0, head |-> 0]]
    /\ local = EmptyDict

NextSelect ==
    \/ Transformer_execute_lock
    \/ Transformer_execute_llm
    \/ Transformer_deposit

SpecSelect == InitSelect /\ [][NextSelect]_vars

\* ----------------------------------- SpecValidate: one Validator.run()

\* Confidences at and next to the two thresholds, and the ends of [0, 1].
ValidateConfidences ==
    {0, validator_confidence_low - 1, validator_confidence_low,
     validator_confidence_high - 1, validator_confidence_high, One}
\* Retry counts at and below the limit; inhibition as left by no or one retry.
ValidateRetryCounts == {0, max_retry_count - 1, max_retry_count}
ValidateInhibitions == {0, InhibitionStep}

ValidateStatusData(ks) ==
    [ks -> { [status |-> "tested", previous_status |-> "transformed",
              retry_count |-> rc, inhibition |-> h, timestamp |-> 0,
              created_by |-> "scout", updated_by |-> "tester"] :
                rc \in ValidateRetryCounts, h \in ValidateInhibitions }]
ValidateQualityData(ks) ==
    [ks -> { [confidence |-> c, timestamp |-> 0, created_by |-> "tester"] :
                c \in ValidateConfidences }]

\* The scheduler is about to call Validator.run(); the tested files have
\* been rewritten by the Transformer and not committed.
InitValidate ==
    /\ \E ks \in SUBSET Files :
        \E status_data \in ValidateStatusData(ks),
           quality_data \in ValidateQualityData(ks) :
          /\ store = [ns \in PHEROMONE_FILE_MAP |->
                        CASE ns = "tasks" -> [k \in ks |-> ResumedTask]
                          [] ns = "status" -> status_data
                          [] OTHER -> quality_data]
          /\ repo = [f \in Files |->
                        [worktree |-> IF f \in ks THEN 1 ELSE 0, head |-> 0]]
    /\ audit = <<>>
    /\ now = 0
    /\ proc = [p \in Agents |-> IdleProc]
    /\ max_budget_usd = 0
    /\ partial_json = {}
    /\ tick = 1
    /\ pc = "validator"
    /\ idle_cycles = 0
    /\ stop_reason = "max_ticks"
    /\ agents_acted = [a \in {"scout", "transformer", "tester"} |-> FALSE]
    /\ total_tokens_used = 0
    /\ summary = NoSummary
    /\ local = EmptyDict

NextValidate ==
    \/ Validator_execute
    \/ Validator_deposit

SpecValidate == InitValidate /\ [][NextValidate]_vars

\* ----------------------------- SpecCrash: a writer killed inside a mutation

\* The statements of _dump_json_to_handle a process can be killed at, and what
\* the namespace file then holds: the text is written in place over the old
\* one, through the handle's buffer, and cut to length only afterwards.
\* "unwritten": nothing has left the buffer, the file holds the old text;
\* "partial": part of the new text lies over the old text, or the whole new
\* text is followed by the rest of a longer old one;
\* "written": the file holds the new text.
DumpPoints == {"seek", "json.dump", "truncate", "flush"}
CrashOutcomes(at) ==
    CASE at = "seek" -> {"unwritten"}
      [] at = "json.dump" -> {"unwritten", "partial"}
      [] at = "truncate" -> {"unwritten", "partial", "written"}
      [] OTHER -> {"written"}

\* The process p is killed at statement `at` of _dump_json_to_handle, inside
\* the critical section of _upsert_entry; its flock goes with it. A file left
\* partial keeps no content a reader could load.
_dump_json_to_handle_killed(p, at) ==
    /\ proc[p].pc = "checked"
    /\ proc[p].pheromone_type \notin partial_json
    /\ LET c == proc[p]
           previous_entry == read_one(store, c.pheromone_type, c.file_key)
           updated_entry == transform(c.action, c.pheromone_type,
                                previous_entry, c.payload, p)
       IN  \E outcome \in CrashOutcomes(at) :
              /\ store' = IF outcome = "written"
                           THEN [store EXCEPT ![c.pheromone_type] =
                                    Put(@, c.file_key, updated_entry)]
                           ELSE store
              /\ partial_json' = IF outcome = "partial"
                                  THEN partial_json \cup {c.pheromone_type}
                                  ELSE partial_json
              /\ proc' = [proc EXCEPT ![p] =
                     [c EXCEPT !.pc = "crashed",
                               !.previous_values = previous_entry,
                               !.updated_entry = updated_entry]]
    /\ UNCHANGED <<audit, now, tick, pc, idle_cycles, stop_reason,
                   agents_acted, total_tokens_used, max_budget_usd, summary,
                   repo, local>>

\* The killed process is started again and calls read_all on the namespace it
\* was writing: _read_json_file returns the mapping or raises. The process
\* makes no further call.
read_all_after_restart(p) ==
    /\ proc[p].pc = "crashed"
    /\ proc' = [proc EXCEPT ![p] =
           [IdleProc EXCEPT
               !.pc = "restarted",
               !.action = "read_all",
               !.pheromone_type = proc[p].pheromone_type,
               !.raised = IF proc[p].pheromone_type \in partial_json
                          THEN "PheromoneStoreError" ELSE "none"]]
    /\ UNCHANGED <<store, audit, now, loopvars>>

NextCrash ==
    \/ \E p \in Agents, ns \in PHEROMONE_FILE_MAP, k \in Files :
          \E d \in Payloads("write", ns) : write(p, ns, k, d)
    \/ \E p \in Agents, ns \in PHEROMONE_FILE_MAP, k \in Files :
          \E d \in Payloads("update", ns) : update(p, ns, k, d)
    \/ \E p \in Agents : _upsert_entry(p)
    \/ \E p \in Agents : _append_audit_event(p)
    \/ \E p \in Agents, at \in DumpPoints : _dump_json_to_handle_killed(p, at)
    \/ \E p \in Agents : read_all_after_restart(p)

SpecCrash == Init /\ [][NextCrash]_vars

\* ------------------------------------------------- SpecQuery: query filters

\* A keyword of query(**filters) is the sequence of the pieces of its name,
\* "__" being a piece: intensity__gt is <<"intensity", "__", "gt">>.
Name(pieces) == IF Len(pieces) = 1 THEN pieces[1] ELSE "(compound)"

\* _parse_filter: filter_name.rsplit("__", 1), or (filter_name, "eq").
_parse_filter(filter_name) ==
    LET seps == {i \in 1..Len(filter_name) : filter_name[i] = "__"}
    IN  IF seps = {}
        THEN <<filter_name, <<"eq">>>>
        ELSE LET last == CHOOSE i \in seps : \A j \in seps : j <= i
             IN  <<SubSeq(filter_name, 1, last - 1),
                   SubSeq(filter_name, last + 1, Len(filter_name))>>

\* The fields whose stored value is an int or a float.
NumericFields == {"intensity", "inhibition", "retry_count", "confidence",
                  "timestamp"}

\* _compare_numeric, for the four operators _matches_filters passes.
_compare_numeric(is_number, current_value, expected_value, op) ==
    IF ~is_number THEN FALSE
    ELSE CASE op = "gt" -> current_value > expected_value
           [] op = "gte" -> current_value >= expected_value
           [] op = "lt" -> current_value < expected_value
           [] OTHER -> current_value <= expected_value

\* _matches_filters: every filter whose operator is one of the six the loop
\* tests must hold; a filter with any other operator is passed over. A field
\* the entry does not have reads as None.
_matches_filters(file_key, entry, filters) ==
    \A filter_name \in DOMAIN filters :
        LET parsed == _parse_filter(filter_name)
            field_name == Name(parsed[1])
            operator == Name(parsed[2])
            expected_value == filters[filter_name]
            is_key == field_name = "file_key"
            present == is_key \/ Has(entry, field_name)
            current_value == IF is_key THEN file_key ELSE entry[field_name]
            is_number == ~is_key /\ present /\ field_name \in NumericFields
        IN  /\ operator = "eq" => (present /\ current_value = expected_value)
            /\ operator \in {"gt", "gte", "lt", "lte"}
                  => _compare_numeric(is_number, current_value,
                                      expected_value, operator)
            /\ operator = "in" => (present /\ current_value \in expected_value)

\* query: the entries of the namespace that match every filter.
query_result(data, pheromone_type, filters) ==
    LET entries == read_all(data, pheromone_type)
        matching == {k \in DOMAIN entries :
                        _matches_filters(k, entries[k], filters)}
    IN  [k \in matching |-> entries[k]]

\* A process calls query and gets its result; no statement of query,
\* _matches_filters or _parse_filter raises on a filter name. One query is
\* explored per behaviour.
query(p, pheromone_type, filters) ==
    /\ \A q \in Agents : proc[q].pc = "idle"
    /\ proc' = [proc EXCEPT ![p] =
           [IdleProc EXCEPT !.pc = "returned", !.action = "query",
               !.pheromone_type = pheromone_type, !.payload = filters,
               !.raised = IF pheromone_type \in partial_json
                          THEN "PheromoneStoreError" ELSE "none",
               !.updated_entry = query_result(store, pheromone_type, filters)]]
    /\ UNCHANGED <<store, audit, now, loopvars>>

\* Filters the callers pass, one per operator, and three with a suffix that
\* is no operator (the last one empty).
QueryThreshold == One \div 2
QueryFilters ==
    { [n \in {<<"status">>} |-> "pending"],
      [n \in {<<"file_key">>} |-> "a.py"],
      [n \in {<<"status", "__", "in">>} |-> {"pending", "retry"}],
      [n \in {<<"intensity", "__", "gt">>} |-> QueryThreshold],
      [n \in {<<"intensity", "__", "gte">>} |-> QueryThreshold],
      [n \in {<<"intensity", "__", "lt">>} |-> QueryThreshold],
      [n \in {<<"intensity", "__", "lte">>} |-> QueryThreshold],
      [n \in {<<"intensity", "__", "between">>} |-> QueryThreshold],
      [n \in {<<"status", "__", "ne">>} |-> "pending"],
      [n \in {<<"intensity", "__">>} |-> QueryThreshold] }

NextQuery ==
    \E p \in Agents, ns \in PHEROMONE_FILE_MAP, filters \in QueryFilters :
        query(p, ns, filters)

SpecQuery == InitDecay /\ [][NextQuery]_vars

\* ------------------------------------------------ SpecCall: LLMClient.call

\* llm.retry_attempts, llm.retry_backoff, and the completion allowance
\* llm.estimated_completion_tokens in the unit of EstimatedTokens.
retry_attempts == 3
retry_backoff == <<1, 2, 4>>
estimated_completion_tokens == 4

\* Calls explored per behaviour of SpecCall.
MaxCalls == 4
\* len(prompt) and len(system or ""): empty, around a multiple of four, and a
\* prompt whose estimate alone is the whole token budget.
PromptChars == {0, 3, 4, 5, 8, 400}
SystemChars == {0, 3}
\* usage.prompt_tokens + usage.completion_tokens of a response: below, above
\* and far above the estimate (no max_tokens is sent with the request).
CallUsages == {3, 10, 40}
\* What the provider does with one request.
ProviderOutcomes == {"response", "retryable_error", "other_error"}

\* Mutant: the prompt estimate rounds up.
_estimate_usage_Ceil(prompt, system) ==
    <<(prompt + system + 3) \div 4, estimated_completion_tokens>>

\* _estimate_usage: (estimated_prompt_tokens, completion_allowance), from the
\* lengths of prompt and system; max_response_tokens is always None.
_estimate_usage(prompt, system) ==
    LET payload_chars == prompt + system
    IN  <<Maximum(1, payload_chars \div 4), estimated_completion_tokens>>

\* _estimate_cost_usd with the pricing of TokenPrice (see total_cost_usd).
_estimate_cost_usd(prompt_tokens, completion_tokens) ==
    Maximum(0, (prompt_tokens + completion_tokens) * TokenPrice)

_backoff_for_attempt(attempt) ==
    IF attempt < Len(retry_backoff) THEN retry_backoff[attempt + 1]
    ELSE retry_backoff[Len(retry_backoff)]

\* The frame of a call: its arguments, the loop variable, the requests sent
\* to the provider, the time.sleep calls made, and how it ended.
CallFrame(calls, prompt, system) ==
    [ agent |-> "llm_client", calls |-> calls,
      prompt |-> prompt, system |-> system,
      estimated_prompt_tokens |-> _estimate_usage(prompt, system)[1],
      attempt |-> 0, requests |-> 0, sleep_calls |-> <<>>,
      last_error |-> "none", raised |-> "none", returned |-> FALSE ]

\* Mutant: the request is sent whatever the budget checks say.
LLMClient_call_NoPreCheck(prompt, system) ==
    /\ pc = "llm_idle"
    /\ local.calls < MaxCalls
    /\ local' = CallFrame(local.calls + 1, prompt, system)
    /\ pc' = "llm_attempt"
    /\ UNCHANGED <<store, audit, now, proc, tick, idle_cycles, stop_reason,
                   agents_acted, total_tokens_used, max_budget_usd,
                   partial_json, summary, repo>>

\* call() up to its retry loop: the estimates and the two budget checks.
LLMClient_call(prompt, system) ==
    /\ pc = "llm_idle"
    /\ local.calls < MaxCalls
    /\ LET estimated == _estimate_usage(prompt, system)
           estimated_tokens == estimated[1] + estimated[2]
           estimated_cost_usd == _estimate_cost_usd(estimated[1], estimated[2])
           frame == CallFrame(local.calls + 1, prompt, system)
       IN  IF ~check_budget(estimated_tokens)
           THEN /\ local' = [frame EXCEPT
                       !.raised = "Token budget exceeded before call"]
                /\ pc' = "llm_idle"
           ELSE IF ~check_cost_budget(estimated_cost_usd)
           THEN /\ local' = [frame EXCEPT
                       !.raised = "Cost budget exceeded before call"]
                /\ pc' = "llm_idle"
           ELSE /\ local' = frame
                /\ pc' = "llm_attempt"
    /\ UNCHANGED <<store, audit, now, proc, tick, idle_cycles, stop_reason,
                   agents_acted, total_tokens_used, max_budget_usd,
                   partial_json, summary, repo>>

\* Mutant: an error that is not retryable is retried like a retryable one.
LLMClient_call_attempt_RetriesAll ==
    /\ pc = "llm_attempt"
    /\ \E outcome \in ProviderOutcomes, tokens_used \in CallUsages :
          LET sent == [local EXCEPT
                          !.requests = @ + 1,
                          !.last_error = IF outcome = "response"
                                         THEN local.last_error ELSE outcome]
          IN  IF outcome = "response"
              THEN /\ total_tokens_used' = total_tokens_used + tokens_used
                   /\ local' = [sent EXCEPT !.returned = TRUE]
                   /\ pc' = "llm_idle"
              ELSE IF local.attempt < retry_attempts - 1
              THEN /\ local' = [sent EXCEPT
                          !.attempt = local.attempt + 1,
                          !.sleep_calls = Append(local.sleep_calls,
                                              _backoff_for_attempt(local.attempt))]
                   /\ UNCHANGED <<pc, total_tokens_used>>
              ELSE /\ local' = [sent EXCEPT !.raised = outcome]
                   /\ pc' = "llm_idle"
                   /\ UNCHANGED total_tokens_used
    /\ UNCHANGED <<store, audit, now, proc, tick, idle_cycles, stop_reason,
                   agents_acted, max_budget_usd, partial_json, summary, repo>>

\* One pass of the retry loop of call(): the request, and either the
\* accounting and the return, or the except branch.
LLMClient_call_attempt ==
    /\ pc = "llm_attempt"
    /\ \E outcome \in ProviderOutcomes, tokens_used \in CallUsages :
          LET sent == [local EXCEPT
                          !.requests = @ + 1,
                          !.last_error = IF outcome = "response"
                                         THEN local.last_error ELSE outcome]
          IN  IF outcome = "response"
              THEN /\ total_tokens_used' = total_tokens_used + tokens_used
                   /\ local' = [sent EXCEPT !.returned = TRUE]
                   /\ pc' = "llm_idle"
              ELSE IF outcome = "other_error"
              THEN /\ local' = [sent EXCEPT !.raised = outcome]
                   /\ pc' = "llm_idle"
                   /\ UNCHANGED total_tokens_used
              ELSE IF local.attempt < retry_attempts - 1
              THEN /\ local' = [sent EXCEPT
                          !.attempt = local.attempt + 1,
                          !.sleep_calls = Append(local.sleep_calls,
                                              _backoff_for_attempt(local.attempt))]
                   /\ UNCHANGED <<pc, total_tokens_used>>
              ELSE /\ local' = [sent EXCEPT !.raised = outcome]
                   /\ pc' = "llm_idle"
                   /\ UNCHANGED total_tokens_used
    /\ UNCHANGED <<store, audit, now, proc, tick, idle_cycles, stop_reason,
                   agents_acted, max_budget_usd, partial_json, summary, repo>>

\* A fresh client, with or without a cost budget, before its first call.
InitCall ==
    /\ store = [ns \in PHEROMONE_FILE_MAP |-> EmptyDict]
    /\ audit = <<>>
    /\ now = 0
    /\ proc = [p \in Agents |-> IdleProc]
    /\ max_budget_usd \in {0, CostBudget}
    /\ partial_json = {}
    /\ tick = 0
    /\ pc = "llm_idle"
    /\ idle_cycles = 0
    /\ stop_reason = "max_ticks"
    /\ agents_acted = EmptyDict
    /\ total_tokens_used = 0
    /\ summary = NoSummary
    /\ repo = [f \in Files |-> [worktree |-> 0, head |-> 0]]
    /\ local = [CallFrame(0, 0, 0) EXCEPT !.returned = TRUE]

NextCall ==
    \/ \E prompt \in PromptChars, system \in SystemChars :
          LLMClient_call(prompt, system)
    \/ LLMClient_call_attempt

SpecCall == InitCall /\ [][NextCall]_vars

\* ------------------------------------------------------------ store claims

StatusData == store["status"]

\* The file's status entry is in_progress and locked by an agent other than p.
LockedByOther(status_data, file_key, p) ==
    /\ file_key \in DOMAIN status_data
    /\ Get(status_data[file_key], "status", "") = "in_progress"
    /\ Has(status_data[file_key], "lock_owner")
    /\ status_data[file_key]["lock_owner"] # p

\* C1: a write/update invoked while the key's status entry is in_progress and
\* locked by another agent raises ScopeLockError, changes no entry of any
\* namespace and appends no audit event.
C1_ScopeLockRejects ==
    [][\A p \in Agents :
        ( /\ proc[p].pc = "idle"
          /\ proc'[p] # proc[p]
          /\ LockedByOther(StatusData, proc'[p].file_key, p) )
        => ( /\ proc'[p].pc = "idle"
             /\ proc'[p].raised = "ScopeLockError"
             /\ store' = store
             /\ audit' = audit )]_vars

C1_Witness ==
    \E p \in Agents :
        /\ proc[p].raised = "ScopeLockError"
        /\ LockedByOther(StatusData, proc[p].file_key, p)

\* C2: the scope lock is exclusive under any interleaving: while an entry is
\* in_progress and locked by one agent, no commit makes another agent its
\* lock_owner.
C2_LockNeverOverwritten ==
    [][\A k \in DOMAIN StatusData :
        LET before == StatusData[k]
            after == store'["status"][k]
        IN  ( /\ Get(before, "status", "") = "in_progress"
              /\ Has(before, "lock_owner")
              /\ Get(after, "status", "") = "in_progress"
              /\ Has(after, "lock_owner") )
            => after["lock_owner"] = before["lock_owner"]]_vars

\* C3: in every committed state of the status namespace an entry has a
\* lock_owner iff its status is in_progress.
C3_LockOwnerIffInProgress ==
    \A k \in DOMAIN StatusData :
        Has(StatusData[k], "lock_owner")
            <=> (Get(StatusData[k], "status", "") = "in_progress")

\* C4: no step of write, update, maintain_status or decay lowers a stored
\* retry_count (and no entry disappears).
C4_RetryCountMonotone ==
    [][\A k \in DOMAIN StatusData :
        /\ k \in DOMAIN store'["status"]
        /\ Get(store'["status"][k], "retry_count", 0)
              >= Get(StatusData[k], "retry_count", 0)]_vars

\* A caller supplied a retry_count below the stored one, and the commit kept
\* the stored one.
C4_Witness ==
    \E p \in Agents :
        /\ proc[p].pc = "committed"
        /\ proc[p].pheromone_type = "status"
        /\ Has(proc[p].payload, "retry_count")
        /\ Has(proc[p].previous_values, "retry_count")
        /\ proc[p].payload["retry_count"] < proc[p].previous_values["retry_count"]
        /\ proc[p].updated_entry["retry_count"]
              = proc[p].previous_values["retry_count"]

\* C5: a status write/update whose resulting retry_count exceeds
\* max_retry_count stores status skipped.
C5_RetryLimitForcesSkipped ==
    [][\A p \in Agents :
        ( /\ proc[p].pc = "checked"
          /\ proc'[p].pc = "committed"
          /\ proc[p].pheromone_type = "status" )
        => LET stored == store'["status"][proc[p].file_key]
           IN  stored["retry_count"] > max_retry_count
                  => stored["status"] = "skipped"]_vars

C5_Witness ==
    \E p \in Agents :
        /\ proc[p].pc = "committed"
        /\ proc[p].pheromone_type = "status"
        /\ proc[p].payload["status"] = "in_progress"
        /\ StatusData[proc[p].file_key]["retry_count"] > max_retry_count
        /\ StatusData[proc[p].file_key]["status"] = "skipped"

\* C7: every write/update appends exactly one audit event whose
\* fields_changed is non-empty and holds only keys whose value changed.
C7_OneNonEmptyAuditEvent ==
    [][\A p \in Agents :
        (proc[p].pc = "committed" /\ proc'[p].pc = "idle")
        => /\ Len(audit') = Len(audit) + 1
           /\ LET event == audit'[Len(audit')]
                  previous == proc[p].previous_values
                  updated == proc[p].updated_entry
              IN  /\ DOMAIN event.fields_changed # {}
                  /\ \A f \in DOMAIN event.fields_changed :
                        /\ f \in DOMAIN updated
                        /\ ~Has(previous, f) \/ previous[f] # updated[f]]_vars

\* C10: maintain_status(current_tick) demotes every in_progress entry whose
\* lock is older than scope_lock_ttl to pending, adds exactly 1 to its
\* retry_count and removes both lock fields.
C10_TtlRelease ==
    [][\A t \in MaintainTicks :
        maintain_status(t) =>
            \A k \in DOMAIN StatusData :
                LET before == StatusData[k]
                    after == store'["status"][k]
                IN  ( /\ before["status"] = "in_progress"
                      /\ t - before["lock_acquired_tick"] > scope_lock_ttl )
                    => /\ after["status"] = "pending"
                       /\ after["retry_count"] = before["retry_count"] + 1
                       /\ ~Has(after, "lock_owner")
                       /\ ~Has(after, "lock_acquired_tick")]_vars

C10_Witness ==
    \E k \in DOMAIN StatusData :
        /\ Get(StatusData[k], "updated_by", "") = "system_ttl"
        /\ StatusData[k]["status"] = "pending"
        /\ Get(StatusData[k], "previous_status", "") = "in_progress"

\* ------------------------------------------------------------- loop claims

\* C6: after any write, update or decay every stored task intensity and every
\* stored status inhibition lies in [0,1].
C6_UnitInterval ==
    /\ \A k \in DOMAIN store["tasks"] :
          Has(store["tasks"][k], "intensity")
              => store["tasks"][k]["intensity"] \in 0..One
    /\ \A k \in DOMAIN StatusData :
          Has(StatusData[k], "inhibition")
              => StatusData[k]["inhibition"] \in 0..One

\* The agent (or system pass) that changed an entry, as the entry records it.
ChangedBy(entry) == Get(entry, "updated_by", Get(entry, "created_by", "none"))

\* <<from, to, by>> of every status change of an existing entry in this step.
StatusChanges ==
    { <<StatusData[k]["status"], store'["status"][k]["status"],
        ChangedBy(store'["status"][k])>> :
        k \in {f \in DOMAIN StatusData :
                  store'["status"][f]["status"] # StatusData[f]["status"]} }

ListedTransitions ==
    { <<"pending", "in_progress", "transformer">>,
      <<"retry", "in_progress", "transformer">>,
      <<"in_progress", "transformed", "transformer">>,
      <<"in_progress", "retry", "transformer">>,
      <<"in_progress", "failed", "transformer">>,
      <<"transformed", "tested", "tester">>,
      <<"tested", "validated", "validator">>,
      <<"tested", "needs_review", "validator">>,
      <<"tested", "retry", "validator">>,
      <<"tested", "skipped", "validator">>,
      <<"retry", "pending", "system_retry">>,
      <<"in_progress", "pending", "system_ttl">> }

\* The retry limit and the Validator's error path add three transitions.
RetryLimitAndErrorTransitions ==
    { <<"in_progress", "skipped", "transformer">>,
      <<"pending", "skipped", "transformer">>,
      <<"tested", "failed", "validator">> }

\* C8 (as claimed): during a scheduler run every change of a status value is
\* one of the listed transitions, made by the listed agent.
C8_OnlyListedTransitions ==
    [][StatusChanges \subseteq ListedTransitions]_vars

\* C8 (amended): every change of a status value is a listed transition, or
\* in_progress -> skipped / pending -> skipped by the Transformer (retry limit
\* exceeded), or tested -> failed by the Validator (git operation raised).
C8_TransitionsWithRetryLimitAndErrors ==
    [][StatusChanges \subseteq
          (ListedTransitions \cup RetryLimitAndErrorTransitions)]_vars

\* The Validator's error path has been taken: tested -> failed.
C8_Witness ==
    \E k \in DOMAIN StatusData :
        /\ StatusData[k]["status"] = "failed"
        /\ StatusData[k]["previous_status"] = "tested"
        /\ StatusData[k]["updated_by"] = "validator"

\* The agent whose run() the scheduler is in.
RunningAgent ==
    CASE pc \in {"transformer", "transformer_llm", "transformer_deposit"}
            -> "transformer"
      [] pc \in {"validator", "validator_deposit"} -> "validator"
      [] pc = "tester" -> "tester"
      [] pc = "scout" -> "scout"
      [] OTHER -> "none"

\* C9: a file of the target repository is modified on disk only by an agent
\* that holds the scope lock on it at that moment (status in_progress and
\* lock_owner = that agent).
C9_DiskWriteUnderLock ==
    [][\A f \in Files :
        repo'[f].worktree # repo[f].worktree
            => /\ f \in DOMAIN StatusData
               /\ Get(StatusData[f], "status", "none") = "in_progress"
               /\ Get(StatusData[f], "lock_owner", "none") = RunningAgent]_vars

\* C11: every status entry that is in retry when a tick begins is moved to
\* pending by the tick's maintain_status, with retry_count and inhibition as
\* they were, and no entry is in retry when the first agent runs.
C11_RetryRequeuedBeforeAgents ==
    [][ /\ (pc = "maintain" /\ pc' = "apply_decay")
            => \A k \in DOMAIN StatusData :
                  StatusData[k]["status"] = "retry"
                    => /\ store'["status"][k]["status"] = "pending"
                       /\ store'["status"][k]["retry_count"]
                              = StatusData[k]["retry_count"]
                       /\ store'["status"][k]["inhibition"]
                              = StatusData[k]["inhibition"]
        /\ pc' = "scout"
            => \A k \in DOMAIN store'["status"] :
                  store'["status"][k]["status"] # "retry" ]_vars

\* A requeued entry is pending when the Scout is about to run.
C11_Witness ==
    /\ pc = "scout"
    /\ \E k \in DOMAIN StatusData :
          /\ StatusData[k]["status"] = "pending"
          /\ Get(StatusData[k], "previous_status", "none") = "retry"
          /\ StatusData[k]["retry_count"] > 0
          /\ StatusData[k]["inhibition"] > 0

\* The fields of a status namespace the maintenance pass is about.
StatusCore(status_data) ==
    [k \in DOMAIN status_data |->
        [f \in DOMAIN status_data[k]
                \cap {"status", "retry_count", "lock_owner", "lock_acquired_tick"}
            |-> status_data[k][f]]]

\* C12: maintain_status(t) called again with the same t leaves statuses,
\* retry_counts and lock fields as the first call left them.
C12_MaintainIdempotent ==
    [][\A t \in MaintainTicks :
        maintain_status(t)
            => StatusCore(MaintainedStatus(store'["status"], t))
                  = StatusCore(store'["status"])]_vars

\* A maintenance pass has requeued a retry entry.
C12_Witness ==
    \E k \in DOMAIN StatusData :
        /\ Get(StatusData[k], "updated_by", "none") = "system_retry"
        /\ StatusData[k]["status"] = "pending"

TasksData == store["tasks"]

\* The status apply_decay reads for a task: the entry's, or pending when the
\* file has no status entry.
DecayStatusOf(k) == Get(Get(StatusData, k, EmptyDict), "status", "pending")

\* The audit events a step appended.
Appended == SubSeq(audit', Len(audit) + 1, Len(audit'))
AppendedFor(pheromone_type, k) ==
    {i \in 1..Len(Appended) :
        /\ Appended[i]["pheromone_type"] = pheromone_type
        /\ Appended[i]["file_key"] = k}

\* C13 as stated: apply_decay changes a task's intensity only if the file
\* has a status entry that is pending or retry.
C13_OnlyPendingOrRetryEntries ==
    [][apply_decay =>
        \A k \in DOMAIN TasksData :
            store'["tasks"][k]["intensity"] # TasksData[k]["intensity"]
                => /\ k \in DOMAIN StatusData
                   /\ StatusData[k]["status"] \in {"pending", "retry"}]_vars

\* C13 (amended): apply_decay changes a task only if the file's status is
\* pending or retry, a file without a status entry counting as pending; a
\* task whose file has any other status is left as it was and is not audited.
C13_DecayOnlyPendingOrRetry ==
    [][apply_decay =>
        \A k \in DOMAIN TasksData :
            /\ store'["tasks"][k] # TasksData[k]
                  => DecayStatusOf(k) \in {"pending", "retry"}
            /\ DecayStatusOf(k) \notin {"pending", "retry"}
                  => /\ store'["tasks"][k] = TasksData[k]
                     /\ AppendedFor("tasks", k) = {}]_vars

\* A pass decayed the task of a file without status entry and left alone a
\* positive task whose file is in_progress.
C13_Witness ==
    /\ \E k \in DOMAIN TasksData :
          /\ k \notin DOMAIN StatusData
          /\ Get(TasksData[k], "updated_by", "none") = "system_decay"
    /\ \E k \in DOMAIN TasksData :
          /\ k \in DOMAIN StatusData
          /\ StatusData[k]["status"] = "in_progress"
          /\ TasksData[k]["intensity"] = One
          /\ ~Has(TasksData[k], "updated_by")

\* C14: over an apply_decay call no task's intensity grows, and the value
\* before and the value after both lie in [0, 1].
C14_DecayMonotoneInUnit ==
    [][apply_decay =>
        \A k \in DOMAIN TasksData :
            /\ store'["tasks"][k]["intensity"] <= TasksData[k]["intensity"]
            /\ TasksData[k]["intensity"] \in 0..One
            /\ store'["tasks"][k]["intensity"] \in 0..One]_vars

\* A task that started at 1.0 has been decayed to a smaller positive value.
C14_Witness ==
    \E k \in DOMAIN TasksData :
        /\ Get(TasksData[k], "updated_by", "none") = "system_decay"
        /\ TasksData[k]["intensity"] > One \div 2
        /\ TasksData[k]["intensity"] < One

\* C15: a decay pass leaves an entry whose decayed value equals its value as
\* it was and appends no audit event for it.
C15_UnchangedValueNotAudited ==
    [][ /\ apply_decay =>
            \A k \in DOMAIN TasksData :
                decay_intensity(TasksData[k]["intensity"]) = TasksData[k]["intensity"]
                    => /\ store'["tasks"][k] = TasksData[k]
                       /\ AppendedFor("tasks", k) = {}
        /\ apply_decay_inhibition =>
            \A k \in DOMAIN StatusData :
                decay_inhibition(StatusData[k]["inhibition"]) = StatusData[k]["inhibition"]
                    => /\ store'["status"][k] = StatusData[k]
                       /\ AppendedFor("status", k) = {} ]_vars

\* A pass audited one pending task and passed over another pending task that
\* sits at the fixed point.
C15_Witness ==
    /\ \E i \in 1..Len(audit) : audit[i]["pheromone_type"] = "tasks"
    /\ \E k \in DOMAIN TasksData :
          /\ DecayStatusOf(k) = "pending"
          /\ TasksData[k]["intensity"] = 0
          /\ ~Has(TasksData[k], "updated_by")

\* The agents in the order run_loop builds and runs them.
AgentOrder == <<"scout", "transformer", "tester", "validator">>

\* Position of a scheduler step within its tick.
PhaseOf(p) ==
    CASE p = "maintain" -> 1
      [] p = "apply_decay" -> 2
      [] p = "apply_decay_inhibition" -> 3
      [] p = "scout" -> 4
      [] p \in {"transformer", "transformer_llm", "transformer_deposit"} -> 5
      [] p \in {"tester"} -> 6
      [] p \in {"validator", "validator_deposit"} -> 7
      [] p = "record_tick" -> 8
      [] OTHER -> 9

\* Who signs the audit events of a step taken at position p.
PhaseActors(p) ==
    CASE p = "maintain" -> {"system_ttl", "system_retry"}
      [] p \in {"apply_decay", "apply_decay_inhibition"} -> {"system_decay"}
      [] OTHER -> {RunningAgent} \ {"none"}

\* C16: within a tick maintain_status comes first, then the two decay passes,
\* then Scout, Transformer, Tester, Validator once each in that order, then
\* the metrics row; every store change of a step is signed by the actor of
\* that step, and the row is recorded with all four agents' results.
C16_TickOrder ==
    [][ /\ \/ pc' = "crashed"
           \/ pc = "stopped" /\ pc' = "returned"
           \/ /\ PhaseOf(pc') = PhaseOf(pc)
              /\ RunningAgent \in {"transformer", "validator"}
              /\ tick' = tick
           \/ /\ PhaseOf(pc') = PhaseOf(pc) + 1
              /\ tick' = tick
           \/ /\ pc = "record_tick"
              /\ pc' = "maintain"
              /\ tick' = tick + 1
        /\ \A i \in 1..Len(Appended) : Appended[i]["agent"] \in PhaseActors(pc)
        /\ agents_acted' # agents_acted
              => \E i \in 1..Len(AgentOrder) :
                    /\ AgentOrder[i] = RunningAgent
                    /\ PhaseOf(pc') = PhaseOf(pc) + 1
                    /\ DOMAIN agents_acted' = {AgentOrder[j] : j \in 1..i}
                    /\ i > 1 => DOMAIN agents_acted = {AgentOrder[j] : j \in 1..(i - 1)}
        /\ PhaseOf(pc') = PhaseOf(pc) + 1 /\ RunningAgent # "none"
              => RunningAgent \in DOMAIN agents_acted'
        /\ pc = "record_tick"
              => DOMAIN agents_acted = {AgentOrder[j] : j \in 1..Len(AgentOrder)} ]_vars

\* A tick after the first is about to be recorded, in which the three
\* downstream agents all acted after a requeue and a decay.
C16_Witness ==
    /\ pc = "record_tick"
    /\ tick > 0
    /\ \A a \in {"transformer", "tester", "validator"} :
          Has(agents_acted, a) /\ agents_acted[a]
    /\ \E i \in 1..Len(audit) : audit[i]["agent"] = "system_retry"
    /\ \E i \in 1..Len(audit) : audit[i]["agent"] = "system_decay"

\* C17: a tick that ends with a cost budget configured, total_cost_usd at or
\* over it and some status entry not terminal stops the scheduler with
\* stop_reason budget_exhausted.
C17_CostBudgetStops ==
    [][ ( /\ pc = "record_tick"
          /\ max_budget_usd > 0
          /\ total_cost_usd >= max_budget_usd
          /\ ~_all_terminal(read_all(store, "status")) )
        => ( /\ pc' = "stopped"
             /\ stop_reason' = "budget_exhausted" ) ]_vars

\* The stop conditions as specified, at the end of a tick.
AllTerminal == _all_terminal(read_all(store, "status"))
BudgetExhausted ==
    \/ total_tokens_used >= max_tokens_total
    \/ max_budget_usd > 0 /\ total_cost_usd >= max_budget_usd
AnyActed == \E a \in DOMAIN agents_acted : agents_acted[a]

\* The first stop condition that holds, given the consecutive-idle count.
FirstStopCondition(idle) ==
    IF AllTerminal THEN "all_terminal"
    ELSE IF BudgetExhausted THEN "budget_exhausted"
    ELSE IF idle >= idle_cycles_to_stop THEN "idle_cycles"
    ELSE "none"

\* C18: at the end of a tick the scheduler stops with the first of
\* all_terminal, budget_exhausted, idle_cycles that holds; when none holds it
\* goes on to the next tick, and after max_ticks ticks without any of them it
\* stops with stop_reason max_ticks.
C18_FirstStopConditionReported ==
    [][ pc = "record_tick" =>
          LET first == FirstStopCondition(idle_cycles')
          IN  IF first # "none"
              THEN pc' = "stopped" /\ stop_reason' = first /\ tick' = tick
              ELSE IF tick + 1 < max_ticks
              THEN pc' = "maintain" /\ tick' = tick + 1
              ELSE pc' = "stopped" /\ stop_reason' = "max_ticks"
                   /\ tick' = max_ticks - 1 ]_vars

\* C19: the scheduler stops with idle_cycles exactly at the end of a tick at
\* which the consecutive-idle count has reached idle_cycles_to_stop and
\* neither all_terminal nor budget_exhausted holds; a tick in which an agent
\* acted sets the count to zero, any other tick adds one to it.
C19_IdleCyclesStop ==
    [][ pc = "record_tick" =>
          /\ idle_cycles' = IF AnyActed THEN 0 ELSE idle_cycles + 1
          /\ (pc' = "stopped" /\ stop_reason' = "idle_cycles")
                <=> ( /\ idle_cycles' >= idle_cycles_to_stop
                      /\ ~AllTerminal
                      /\ ~BudgetExhausted ) ]_vars

\* C20: when an agent's run() raises, the exception leaves run_loop only
\* after the final summary has been written.
C20_SummaryFlushedOnException ==
    pc = "crashed" => summary # NoSummary

\* A status entry whose metadata records a call the gateway refused.
RecordsRejectedCall(entry) ==
    /\ Has(entry, "metadata")
    /\ Get(entry["metadata"], "error", "none") = "budget_exceeded"

\* C21: at the end of a tick in which (or before which) the gateway refused a
\* call because a budget would be breached, the scheduler stops, with
\* stop_reason budget_exhausted unless all_terminal, evaluated first, holds.
C21_RejectedCallStopsRun ==
    [][ ( /\ pc = "record_tick"
          /\ \E k \in DOMAIN StatusData : RecordsRejectedCall(StatusData[k]) )
        => ( /\ pc' = "stopped"
             /\ stop_reason' = IF AllTerminal THEN "all_terminal"
                               ELSE "budget_exhausted" ) ]_vars

\* should_act of each agent on what its perceive() reads.
should_act(a) ==
    CASE a = "scout" -> Scout_perceive(store) # {}
      [] a = "transformer" -> Transformer_candidates(store) # {}
      [] a = "tester" -> Tester_candidates(store) # {}
      [] a = "validator" -> Validator_candidates(store) # {}

\* run() of agent a returns with this step.
Returns(a, acted) ==
    /\ ~Has(agents_acted, a) \/ pc = "scout"
    /\ agents_acted' # agents_acted
    /\ Has(agents_acted', a)
    /\ agents_acted'[a] = acted

\* C22: run() returns false exactly when should_act is false on what was
\* perceived, and then nothing was decided, executed or deposited: no store
\* entry, audit event, repository file or token count changed. It returns
\* true only from deposit, which follows execute.
C22_IdleRunChangesNothing ==
    [][ \A i \in 1..Len(AgentOrder) :
          LET a == AgentOrder[i]
          IN  /\ (pc = a /\ ~should_act(a))
                   => /\ Returns(a, FALSE)
                      /\ UNCHANGED <<store, audit, repo, local, total_tokens_used>>
              /\ Returns(a, FALSE) => pc = a /\ ~should_act(a)
              /\ Returns(a, TRUE)
                   => /\ pc \in {"scout", "transformer_deposit", "tester",
                                 "validator_deposit"}
                      /\ RunningAgent = a
                      /\ pc \in {"transformer_deposit", "validator_deposit"}
                            => local.outcome # "none"
                      /\ \E e \in 1..Len(Appended) : Appended[e]["agent"] = a ]_vars

\* A tick in which the Scout was idle and the Transformer acted.
C22_Witness ==
    /\ pc = "record_tick"
    /\ ~agents_acted["scout"]
    /\ agents_acted["transformer"]
    /\ ~agents_acted["validator"]

\* The tiers of C23 over the pending/retry files that have a task.
Intensity(k) == TasksData[k]["intensity"]
Inhibition(k) == StatusData[k]["inhibition"]
Eligible ==
    {k \in DOMAIN StatusData \cap DOMAIN TasksData :
        StatusData[k]["status"] \in {"pending", "retry"}}
PreferredTier ==
    {k \in Eligible : /\ Intensity(k) > transformer_intensity_min
                      /\ Inhibition(k) < inhibition_threshold}
FallbackTier == {k \in Eligible : Inhibition(k) < inhibition_threshold}
StarvedTier == {k \in Eligible : Inhibition(k) >= inhibition_threshold}
\* (-intensity, file_key) and (inhibition, -intensity, file_key), ascending.
IntensityKeyLeq(a, b) ==
    \/ Intensity(a) > Intensity(b)
    \/ Intensity(a) = Intensity(b) /\ FileIndex(a) <= FileIndex(b)
InhibitionKeyLeq(a, b) ==
    \/ Inhibition(a) < Inhibition(b)
    \/ Inhibition(a) = Inhibition(b) /\ IntensityKeyLeq(a, b)
FirstOfTiers(k) ==
    IF PreferredTier # {}
    THEN k \in PreferredTier /\ \A j \in PreferredTier : IntensityKeyLeq(k, j)
    ELSE IF FallbackTier # {}
    THEN k \in FallbackTier /\ \A j \in FallbackTier : IntensityKeyLeq(k, j)
    ELSE k \in StarvedTier /\ \A j \in StarvedTier : InhibitionKeyLeq(k, j)

\* C23: a Transformer.run() that acts takes the first candidate of the first
\* non-empty tier (preferred, fallback, starved, each in its order), and
\* over the whole run changes the status entry and the repository file of
\* that one file only.
C23_FirstCandidateOfFirstTier ==
    [][ RunningAgent = "transformer" =>
          /\ (pc = "transformer" /\ Eligible # {})
                => /\ pc' = "transformer_llm"
                   /\ FirstOfTiers(local'.file_key)
                   /\ store'["status"][local'.file_key]["status"] = "in_progress"
          /\ (pc = "transformer" /\ Eligible = {})
                => store' = store /\ local' = local
          /\ \A k \in Files :
                ( \/ Get(store'["status"], k, EmptyDict) # Get(StatusData, k, EmptyDict)
                  \/ repo'[k] # repo[k] )
                    => k = (IF pc = "transformer" THEN local'.file_key
                            ELSE local.file_key)
          /\ pc # "transformer" => (local' = NoLocal \/ local'.file_key = local.file_key)
      ]_vars

\* A run took an inhibited file from the starved tier although the other
\* inhibited file has the higher intensity.
C23_Witness ==
    /\ pc = "transformer_llm"
    /\ PreferredTier = {} /\ FallbackTier = {}
    /\ Inhibition(local.file_key) >= inhibition_threshold
    /\ \E k \in StarvedTier :
          /\ Intensity(k) > Intensity(local.file_key)
          /\ Inhibition(k) > Inhibition(local.file_key)

\* The status entry of the file the Transformer is working on.
TransformedEntry == StatusData[local.file_key]
RetryableDeposit ==
    /\ pc = "transformer_deposit"
    /\ local.outcome = "retryable"
    /\ pc' = "tester"

\* C24 as stated: a transform whose output still fails to parse after the
\* repair calls is deposited as status retry, retry_count + 1, inhibition + 0.5.
C24_SyntaxGateFailureIsRetry ==
    [][ RetryableDeposit =>
          /\ store'["status"][local.file_key]["status"] = "retry"
          /\ store'["status"][local.file_key]["retry_count"]
                = TransformedEntry["retry_count"] + 1
          /\ store'["status"][local.file_key]["inhibition"]
                = TransformedEntry["inhibition"] + InhibitionStep ]_vars

\* C24 (amended): one transform makes at most repair_attempts_max repair
\* calls; when the output still fails to parse the file is not written and
\* the failure is deposited with retry_count + 1 and inhibition + 0.5, as
\* status retry while retry_count + 1 <= max_retry_count and as skipped
\* beyond it.
C24_SyntaxGateBoundedAndRetryable ==
    [][ /\ pc = "transformer_llm" =>
            /\ local'.repair_attempts_used <= repair_attempts_max
            /\ local'.repair_attempts_used \in
                  {local.repair_attempts_used, local.repair_attempts_used + 1}
            /\ local'.outcome = "retryable"
                  => /\ local.repair_attempts_used = repair_attempts_max
                     /\ repo' = repo
                     /\ local'.retry_count = TransformedEntry["retry_count"] + 1
                     /\ local'.inhibition
                           = TransformedEntry["inhibition"] + InhibitionStep
        /\ RetryableDeposit =>
            /\ repo' = repo
            /\ store'["status"][local.file_key]["status"]
                  = IF TransformedEntry["retry_count"] + 1 <= max_retry_count
                    THEN "retry" ELSE "skipped"
            /\ store'["status"][local.file_key]["retry_count"]
                  = TransformedEntry["retry_count"] + 1
            /\ store'["status"][local.file_key]["inhibition"]
                  = TransformedEntry["inhibition"] + InhibitionStep ]_vars

\* A syntax-gate failure beyond the retry limit has been deposited as skipped,
\* and another within it as retry.
C24_Witness ==
    \E i, j \in 1..Len(audit) :
        /\ audit[i]["agent"] = "transformer"
        /\ audit[i]["previous_values"]["status"] = "in_progress"
        /\ audit[i]["fields_changed"]["status"] = "retry"
        /\ audit[j]["agent"] = "transformer"
        /\ audit[j]["previous_values"]["status"] = "in_progress"
        /\ audit[j]["fields_changed"]["status"] = "skipped"
        /\ audit[j]["fields_changed"]["retry_count"] = max_retry_count + 1

QualityData == store["quality"]
\* The confidence the Tester deposited for the file the Validator holds.
HeldConfidence == QualityData[local.file_key]["confidence"]

\* C25: for a tested file whose decision is applied without error, the
\* Validator deposits validated when confidence >= validator_confidence_high
\* (after committing the file), needs_review when validator_confidence_low <=
\* confidence < validator_confidence_high (touching no file), and otherwise
\* rolls the file back and deposits retry or skipped.
C25_ThresholdDecision ==
    [][ /\ (pc = "validator" /\ pc' = "validator_deposit")
            => LET k == local'.file_key
                   c == QualityData[k]["confidence"]
               IN  /\ StatusData[k]["status"] = "tested"
                   /\ (c >= validator_confidence_low /\ c < validator_confidence_high)
                        => repo' = repo /\ local'.outcome = "success"
                   /\ (local'.outcome = "success" /\ c >= validator_confidence_high)
                        => repo'[k].head = repo[k].worktree
                   /\ (local'.outcome = "success" /\ c < validator_confidence_low)
                        => repo'[k].worktree = repo[k].head
                   /\ \A f \in Files \ {k} : repo'[f] = repo[f]
        /\ (pc = "validator_deposit" /\ local.outcome = "success")
            => LET after == store'["status"][local.file_key]["status"]
               IN  /\ repo' = repo
                   /\ HeldConfidence >= validator_confidence_high
                        => after = "validated"
                   /\ ( /\ HeldConfidence >= validator_confidence_low
                        /\ HeldConfidence < validator_confidence_high )
                        => after = "needs_review"
                   /\ HeldConfidence < validator_confidence_low
                        => after \in {"retry", "skipped"} ]_vars

\* A file sent to review at exactly the low threshold, left uncommitted.
C25_Witness ==
    /\ pc = "record_tick"
    /\ \E k \in DOMAIN StatusData :
          /\ StatusData[k]["status"] = "needs_review"
          /\ StatusData[k]["metadata"] = [decision |-> "human_escalation"]
          /\ QualityData[k]["confidence"] = validator_confidence_low
          /\ repo[k].head # repo[k].worktree

\* C26: a rollback applied without error leaves the file in retry with
\* retry_count + 1 and inhibition + 0.5 when retry_count + 1 <=
\* max_retry_count, and in skipped otherwise.
C26_RollbackRetryOrSkipped ==
    [][ ( /\ pc = "validator_deposit"
          /\ local.outcome = "success"
          /\ HeldConfidence < validator_confidence_low )
        => LET before == StatusData[local.file_key]
               after == store'["status"][local.file_key]
           IN  IF before["retry_count"] + 1 <= max_retry_count
               THEN /\ after["status"] = "retry"
                    /\ after["retry_count"] = before["retry_count"] + 1
                    /\ after["inhibition"] = before["inhibition"] + InhibitionStep
               ELSE after["status"] = "skipped" ]_vars

\* A rollback used the last allowed retry.
C26_Witness ==
    /\ pc = "record_tick"
    /\ \E k \in DOMAIN StatusData :
          /\ StatusData[k]["status"] = "retry"
          /\ StatusData[k]["retry_count"] = max_retry_count
          /\ StatusData[k]["inhibition"] = 2 * InhibitionStep
          /\ StatusData[k]["metadata"] = [decision |-> "rollback"]
          /\ repo[k].worktree = repo[k].head

CommittedKeys(ns) ==
    {proc[p].file_key : p \in {q \in Agents : /\ proc[q].pc = "committed"
                                              /\ proc[q].pheromone_type = ns}}
    \cup {audit[i].file_key : i \in {j \in 1..Len(audit) :
                                        /\ audit[j].pheromone_type = ns
                                        /\ audit[j].agent \in Agents}}

EarlierEvents(j) ==
    {i \in 1..(j - 1) : /\ audit[i].pheromone_type = audit[j].pheromone_type
                        /\ audit[i].file_key = audit[j].file_key}

\* C29: the audit events of two mutations of the same namespace appear in the
\* log in the order in which the mutations were committed under the namespace
\* lock. Read in order, the log is then a history of each entry: the first
\* event of an entry (the store starts empty) has no previous values, and the
\* previous values of a later event are those the event before it wrote.
C29_AuditOrderIsCommitOrder ==
    \A j \in 1..Len(audit) :
        IF EarlierEvents(j) = {}
        THEN DOMAIN audit[j].previous_values = {}
        ELSE LET i == CHOOSE e \in EarlierEvents(j) :
                          \A o \in EarlierEvents(j) : o <= e
             IN  \A f \in DOMAIN audit[j].previous_values
                            \cap DOMAIN audit[i].fields_changed :
                     audit[j].previous_values[f] = audit[i].fields_changed[f]

\* ---------------------------------------------------------------- claim C30

\* C30: a process killed at any point of a store mutation leaves the
\* namespace file readable: it holds no partially written JSON (read_all after
\* the restart does not raise), and its content is that of a completed write,
\* the one before the interrupted mutation or the interrupted one itself.
C30_CrashLeavesCompletedWrite ==
    [][ \A p \in Agents :
          /\ (proc[p].pc = "checked" /\ proc'[p].pc = "crashed")
                => LET ns == proc[p].pheromone_type
                   IN  /\ partial_json' = partial_json
                       /\ store'[ns] \in
                             { store[ns],
                               Put(store[ns], proc[p].file_key,
                                   proc'[p].updated_entry) }
          /\ (proc[p].pc = "crashed" /\ proc'[p].pc = "restarted")
                => proc'[p].raised = "none" ]_vars

\* ---------------------------------------------------------------- claim C31

\* The operator suffixes query accepts.
FilterOperators == {"gt", "gte", "lt", "lte", "in"}

\* The filter name has a suffix after "__" that is not an operator.
UnknownSuffix(filter_name) ==
    /\ \E i \in 1..Len(filter_name) : filter_name[i] = "__"
    /\ Name(_parse_filter(filter_name)[2]) \notin FilterOperators

\* C31: a query whose filter has an operator suffix other than gt, gte, lt,
\* lte and in fails with a validation error.
C31_UnknownOperatorRejected ==
    \A p \in Agents :
        ( /\ proc[p].action = "query"
          /\ \E n \in DOMAIN proc[p].payload : UnknownSuffix(n) )
        => proc[p].raised = "PheromoneStoreError"

\* ---------------------------------------------------------------- claim C32

\* The step begins a call of LLMClient.call.
CallBegins == pc = "llm_idle" /\ local'.calls = local.calls + 1

\* The estimate of the call that begins, added to the counters as they are,
\* exceeds the token budget or (with a cost budget) the cost budget.
EstimateOverBudget ==
    LET estimated == _estimate_usage(local'.prompt, local'.system)
        estimated_tokens == estimated[1] + estimated[2]
    IN  \/ total_tokens_used + estimated_tokens > max_tokens_total
        \/ /\ max_budget_usd > 0
           /\ total_tokens_used * TokenPrice + estimated_tokens * TokenPrice
                 > max_budget_usd

\* C32: a call whose estimated tokens or estimated cost would overrun the
\* budget fails before any request is sent to the provider and leaves
\* total_tokens_used and total_cost_usd as they were.
C32_OverrunFailsBeforeDispatch ==
    [][ (CallBegins /\ EstimateOverBudget)
        => ( /\ local'.raised \in {"Token budget exceeded before call",
                                    "Cost budget exceeded before call"}
             /\ local'.requests = 0
             /\ pc' = "llm_idle"
             /\ total_tokens_used' = total_tokens_used
             /\ total_cost_usd' = total_cost_usd ) ]_vars

\* A call refused for the cost budget after earlier calls were answered.
C32_Witness ==
    /\ pc = "llm_idle"
    /\ local.raised = "Cost budget exceeded before call"
    /\ local.requests = 0
    /\ total_tokens_used > 0
    /\ total_tokens_used + EstimatedTokens <= max_tokens_total

\* ---------------------------------------------------------------- claim C33

\* C33: one call sends at most retry_attempts requests to the provider; each
\* retry comes after a sleep of the backoff table's delay for that attempt; an
\* error that is not retryable is raised at once, with no further request;
\* the error of the last attempt is raised.
C33_RetryPolicy ==
    /\ local.requests <= retry_attempts
    /\ \A i \in 1..Len(local.sleep_calls) :
          local.sleep_calls[i] = retry_backoff[i]
    /\ pc = "llm_attempt"
          => /\ Len(local.sleep_calls) = local.requests
             /\ local.last_error \in {"none", "retryable_error"}
    /\ local.requests > 0 /\ pc = "llm_idle"
          => /\ local.requests = Len(local.sleep_calls) + 1
             /\ local.returned \/ local.raised = local.last_error
    /\ local.raised = "retryable_error" => local.requests = retry_attempts

\* Three requests failed with a retryable error, with sleeps of 1 and 2
\* seconds between them, and the last error was raised.
C33_Witness ==
    /\ pc = "llm_idle"
    /\ local.raised = "retryable_error"
    /\ local.requests = retry_attempts
    /\ local.sleep_calls = <<1, 2>>

\* ---------------------------------------------------------------- claim C34

\* |prompt| + |system| of the call in the frame, and a quarter of it rounded up.
PayloadChars == local.prompt + local.system
CeilQuarter(n) == (n + 3) \div 4

\* C34 as stated: the prompt-token estimate of a call equals
\* ceil((|prompt| + |system|) / 4).
C34_PromptEstimateIsCeil ==
    local.calls > 0 => local.estimated_prompt_tokens = CeilQuarter(PayloadChars)

\* C34, amended: the prompt-token estimate of a call is the quarter of
\* |prompt| + |system| rounded down, and 1 when that is 0; it equals the
\* rounded-up quarter only for a positive multiple of four and for 1 to 3
\* characters, and is one less otherwise (one more for an empty payload).
C34_PromptEstimateIsFloorAtLeastOne ==
    local.calls > 0
    => /\ local.estimated_prompt_tokens =
             IF PayloadChars < 4 THEN 1 ELSE PayloadChars \div 4
       /\ (local.estimated_prompt_tokens = CeilQuarter(PayloadChars))
             <=> \/ PayloadChars \in 1..3
                 \/ PayloadChars > 0 /\ PayloadChars % 4 = 0

\* A call with five characters of payload: estimated at 1 token, not 2.
C34_Witness ==
    /\ local.calls > 0
    /\ PayloadChars = 5
    /\ local.estimated_prompt_tokens = 1
    /\ CeilQuarter(PayloadChars) = 2

\* ---------------------------------------------------------------- claim C40

C35_TerminalStatusIsFinal ==
    [][ \A k \in DOMAIN StatusData :
          StatusData[k]["status"] \in TERMINAL_STATUSES
          => /\ k \in DOMAIN StatusData'
             /\ StatusData'[k]["status"] = StatusData[k]["status"] ]_vars

\* A later tick begins with one file terminal and another one still being
\* worked on: maintenance, decay and the four agents run over both.
C35_Witness ==
    /\ pc = "maintain"
    /\ tick > 0
    /\ \E k \in DOMAIN StatusData :
          StatusData[k]["status"] = "needs_review"
    /\ \E k \in DOMAIN StatusData :
          StatusData[k]["status"] \in {"pending", "retry"}

\* ---------------------------------------------------------------- claim C36

\* The run has left its tick loop for a reason other than a budget or the
\* tick limit: nothing is left that any agent would act on.
QuiescentStop ==
    /\ pc \in {"stopped", "returned"}
    /\ stop_reason \in {"all_terminal", "idle_cycles"}

HeldByZombie(entry) ==
    /\ entry["status"] = "in_progress"
    /\ Has(entry, "lock_owner")
    /\ ~TtlExpired(entry, tick)

C37_InhibitedFileNotStarved ==
    [][ /\ (pc = "transformer" /\ StarvedTier # {})
              => /\ pc' = "transformer_llm"
                 /\ local'.file_key \in Eligible
                 /\ FallbackTier = {} => local'.file_key \in StarvedTier
        /\ (pc = "record_tick" /\ pc' = "stopped"
                /\ stop_reason' \in {"all_terminal", "idle_cycles"})
              => StarvedTier = {} ]_vars

\* The Transformer has selected again a file that failed before and is still
\* inhibited at or above the threshold.
C37_Witness ==
    /\ pc = "transformer_llm"
    /\ tick > 0
    /\ StatusData[local.file_key]["status"] = "in_progress"
    /\ StatusData[local.file_key]["retry_count"] > 0
    /\ Inhibition(local.file_key) >= inhibition_threshold


AwaitingFinalize(entry) ==
    /\ entry["status"] = "pending"
    /\ Get(entry, "updated_by", "") = "system_ttl"
    /\ entry["retry_count"] = max_retry_count + 1
    /\ ~Has(entry, "lock_owner")

LockedInThisRun ==
    {k \in DOMAIN StatusData :
        /\ Has(StatusData[k], "lock_owner")
        /\ \E i \in DOMAIN audit :
              /\ audit[i].agent = "transformer"
              /\ audit[i].file_key = k
              /\ Has(audit[i].fields_changed, "lock_acquired_tick")}

InTransformerRun == pc \in {"transformer_llm", "transformer_deposit"}

C39_TransformerReleasesItsLock ==
    [][ /\ (pc = "transformer_deposit" /\ pc' # "transformer_deposit")
              => /\ pc' = "tester"
                 /\ store'["status"][local.file_key]["status"]
                       \in {"transformed", "retry", "failed", "skipped"}
                 /\ ~Has(store'["status"][local.file_key], "lock_owner")
        /\ ~InTransformerRun' => LockedInThisRun' = {} ]_vars

C39_Witness ==
    /\ pc = "tester"
    /\ agents_acted["transformer"]
    /\ \E i \in DOMAIN audit :
          /\ audit[i].agent = "transformer"
          /\ Has(audit[i].fields_changed, "lock_owner")
          /\ StatusData[audit[i].file_key]["status"] = "failed"
          /\ ~Has(StatusData[audit[i].file_key], "lock_owner")


====
